---------------------------- MODULE Spec2Model ----------------------------
(***************************************************************************)
(* Trail Tail backend: the provider registry (ProviderFactory), the mock   *)
(* content generators seeded through Python's process-wide `random`        *)
(* module, the narrative history kept by MockNarrativesProvider, and the   *)
(* lexical content classifier of MockSafetyProvider.                       *)
(*                                                                         *)
(* Strings are sequences of one-character strings, so that substring       *)
(* tests, replace(), lower(), int() and sum(ord(c)) are computed as the    *)
(* code computes them.                                                     *)
(***************************************************************************)
EXTENDS Integers, Sequences, FiniteSets, TLC

VARIABLES
    registry,           \* ProviderFactory._<domain>_provider, per domain
    created,            \* number of provider instances constructed, per domain
    rng,                \* state of the process-wide generator of module `random`
    narrative_history,  \* MockNarrativesProvider._narrative_history, per instance
    result,             \* outcome of the last completed call
    passed,             \* per domain, the instance last passed to register_*_provider
    first,              \* the first recorded outcome of a seeded generator call
    disturbed,          \* a different call has returned since `first` was recorded
    pc,                 \* per thread, position inside a generator call
    call,               \* per thread, the call being executed
    out                 \* per thread, the payload the call returned

vars == <<registry, created, rng, narrative_history, result, passed, first, disturbed, pc, call, out>>

--------------------------------------------------------------------------
(* Bounds of the model *)

MaxGen == 2          \* provider instances constructed per domain
MaxAge == 19         \* largest age tried (the valid domain is 1..18)
MaxPieces == 2       \* text = concatenation of at most MaxPieces pieces
MaxHist == 2         \* generate_narrative calls per provider instance
MaxLimit == 3        \* largest limit passed to get_narrative_history
MaxCount == 3        \* largest count passed to generate_ar_encounters
MaxFamily == 35      \* largest number n of the ids family_<n> and user_<n> asked for
MaxRequest == 10     \* largest count requested of one encounter bank (a bank holds 8)

--------------------------------------------------------------------------
(* Python strings *)

Digits == <<"0","1","2","3","4","5","6","7","8","9">>
LowerCase == <<"a","b","c","d","e","f","g","h","i","j","k","l","m",
               "n","o","p","q","r","s","t","u","v","w","x","y","z">>
UpperCase == <<"A","B","C","D","E","F","G","H","I","J","K","L","M",
               "N","O","P","Q","R","S","T","U","V","W","X","Y","Z">>

IndexOf(c, tbl) == IF \E i \in 1..Len(tbl) : tbl[i] = c
                   THEN CHOOSE i \in 1..Len(tbl) : tbl[i] = c
                   ELSE 0

\* ord(c) for the ASCII characters the identifiers use
Ord(c) ==
    IF IndexOf(c, Digits) > 0 THEN 47 + IndexOf(c, Digits)
    ELSE IF IndexOf(c, UpperCase) > 0 THEN 64 + IndexOf(c, UpperCase)
    ELSE IF IndexOf(c, LowerCase) > 0 THEN 96 + IndexOf(c, LowerCase)
    ELSE IF c = "_" THEN 95
    ELSE 32

\* str.lower()
LowerChar(c) == IF IndexOf(c, UpperCase) > 0 THEN LowerCase[IndexOf(c, UpperCase)] ELSE c
Lower(s) == [i \in 1..Len(s) |-> LowerChar(s[i])]

\* s[i:i+len(w)] == w
MatchAt(s, w, i) == /\ i + Len(w) - 1 <= Len(s)
                    /\ \A j \in 1..Len(w) : s[i + j - 1] = w[j]

\* `w in s` for strings
Contains(s, w) == \E i \in 1..(Len(s) + 1) : MatchAt(s, w, i)

\* s[-n:]
Suffix(s, n) == IF Len(s) <= n THEN s ELSE SubSeq(s, Len(s) - n + 1, Len(s))

\* s.replace(w, r): leftmost, non-overlapping occurrences
RECURSIVE ReplaceFrom(_, _, _, _)
ReplaceFrom(s, w, r, i) ==
    IF i > Len(s) THEN <<>>
    ELSE IF MatchAt(s, w, i) THEN r \o ReplaceFrom(s, w, r, i + Len(w))
    ELSE <<s[i]>> \o ReplaceFrom(s, w, r, i + 1)
Replace(s, w, r) == ReplaceFrom(s, w, r, 1)

\* sum(ord(c) for c in s)
RECURSIVE SumOrd(_)
SumOrd(s) == IF s = <<>> THEN 0 ELSE Ord(Head(s)) + SumOrd(Tail(s))

\* int(s) accepts decimal digits, with single underscores between digits
IsDigit(c) == IndexOf(c, Digits) > 0
IntParses(s) ==
    /\ Len(s) > 0
    /\ IsDigit(s[1]) /\ IsDigit(s[Len(s)])
    /\ \A i \in 1..Len(s) : IsDigit(s[i]) \/ s[i] = "_"
    /\ \A i \in 1..(Len(s) - 1) : ~(s[i] = "_" /\ s[i + 1] = "_")
RECURSIVE IntValue(_, _)
IntValue(s, acc) ==
    IF s = <<>> THEN acc
    ELSE IF Head(s) = "_" THEN IntValue(Tail(s), acc)
    ELSE IntValue(Tail(s), 10 * acc + (IndexOf(Head(s), Digits) - 1))

Range(f) == {f[x] : x \in DOMAIN f}
Min(a, b) == IF a <= b THEN a ELSE b
Max(a, b) == IF a >= b THEN a ELSE b

--------------------------------------------------------------------------
(* Outcomes of calls *)

NoValue == <<>>

Ok(op, args, payload) ==
    [op |-> op, args |-> args, kind |-> "ok", exc |-> "", payload |-> payload]
Raise(op, args, exc) ==
    [op |-> op, args |-> args, kind |-> "raise", exc |-> exc, payload |-> NoValue]

NoResult == [op |-> "", args |-> <<>>, kind |-> "none", exc |-> "", payload |-> NoValue]

--------------------------------------------------------------------------
(* ProviderFactory *)

Domains == {"routes", "narratives", "ar_encounters", "safety", "users"}

\* the class attributes' initial value
None == 0

Instances == 1..MaxGen

\* the interface classes get_provider maps, and two classes it does not
InterfaceOf == [routes |-> "RoutesProvider", narratives |-> "NarrativesProvider",
                ar_encounters |-> "AREncountersProvider", safety |-> "SafetyProvider",
                users |-> "UsersProvider"]
ProviderTypes == Range(InterfaceOf) \cup {"BaseProvider", "MockRoutesProvider"}

\* register_<d>_provider mutated: the first registration wins
register_provider_keep_first(reg, d, provider) ==
    IF reg[d] = None THEN [reg EXCEPT ![d] = provider] ELSE reg

\* register_<d>_provider mutated: every slot is overwritten
register_provider_all_slots(reg, d, provider) == [e \in Domains |-> provider]

\* register_<d>_provider(provider): cls._<d>_provider = provider
register_provider(reg, d, provider) == [reg EXCEPT ![d] = provider]

\* get_<d>_provider mutated: the emptiness test is missing
get_domain_provider_unchecked(reg, d) == Ok("get_provider", <<d>>, reg[d])

\* get_<d>_provider(): ConfigurationError when nothing is registered
get_domain_provider(reg, d) ==
    IF reg[d] = None
    THEN Raise("get_provider", <<d>>, "ConfigurationError")
    ELSE Ok("get_provider", <<d>>, reg[d])

\* get_provider(provider_type)
get_provider(reg, t) ==
    IF ~(\E d \in Domains : InterfaceOf[d] = t)
    THEN Raise("get_provider_generic", <<t>>, "ConfigurationError")
    ELSE LET d == CHOOSE d \in Domains : InterfaceOf[d] = t
             r == get_domain_provider(reg, d)
         IN  [r EXCEPT !.op = "get_provider_generic", !.args = <<t>>]

--------------------------------------------------------------------------
(* MockSafetyProvider.check_content_appropriateness *)

inappropriate_words ==
    <<<<"s","c","a","r","y">>,
      <<"v","i","o","l","e","n","t">>,
      <<"b","l","o","o","d">>,
      <<"k","i","l","l">>,
      <<"d","e","a","d">>,
      <<"w","e","a","p","o","n">>,
      <<"g","u","n">>,
      <<"k","n","i","f","e">>,
      <<"d","i","e">>>>
mild_concern_words ==
    <<<<"f","i","g","h","t">>,
      <<"d","a","r","k">>,
      <<"a","f","r","a","i","d">>,
      <<"s","c","r","e","a","m">>,
      <<"m","o","n","s","t","e","r">>,
      <<"g","h","o","s","t">>>>

w_blood == <<"b","l","o","o","d">>
w_kill == <<"k","i","l","l">>
w_scary == <<"s","c","a","r","y">>
w_learn == <<"l","e","a","r","n">>
w_history == <<"h","i","s","t","o","r","y">>
w_adventure == <<"a","d","v","e","n","t","u","r","e">>
w_discover == <<"d","i","s","c","o","v","e","r">>

\* [word for word in words if word in content.lower()]
MatchedTerms(words, content) ==
    LET lowered == Lower(content)
    IN  SelectSeq(words, LAMBDA w : Contains(lowered, w))

\* the verdict for a text with a high-concern term
RejectedVerdict(content, child_age) ==
    [appropriate |-> FALSE,
     reason |-> "Contains potentially scary or inappropriate content",
     suggested_edit |-> "Consider using more child-friendly language",
     flagged_terms |-> MatchedTerms(inappropriate_words, content),
     age_rating |-> <<"Not suitable for children under", Max(13, child_age + 2)>>,
     confidence |-> "high",
     moderation_details |->
        [violence_level |-> IF Contains(Lower(content), w_blood)
                               \/ Contains(Lower(content), w_kill)
                            THEN "moderate" ELSE "low",
         fear_level |-> IF Contains(Lower(content), w_scary) THEN "high" ELSE "moderate",
         age_appropriate_analysis |->
            "Content contains themes or language that may cause distress"]]

\* the verdict for a text with mild-concern terms only
FlaggedVerdict(content, child_age) ==
    [appropriate |-> child_age >= 9,
     reason |-> "Contains some terms that may be concerning for very young children",
     suggested_edit |-> "Consider gentler language for younger audiences",
     flagged_terms |-> MatchedTerms(mild_concern_words, content),
     age_rating |-> <<"Suitable for ages 9+">>,
     confidence |-> "medium",
     moderation_details |->
        [violence_level |-> "minimal", fear_level |-> "low to moderate",
         age_appropriate_analysis |->
            "Generally appropriate but includes mild elements"]]

\* the verdict for a text without lexicon terms
CleanVerdict(content, child_age) ==
    LET educational == Contains(Lower(content), w_learn) \/ Contains(Lower(content), w_history)
        engaging == Contains(Lower(content), w_adventure) \/ Contains(Lower(content), w_discover)
    IN
    [appropriate |-> TRUE,
     age_rating |-> IF child_age < 7 THEN <<"Suitable for ages 3-7">>
                    ELSE IF child_age < 12 THEN <<"Suitable for ages 7-12">>
                    ELSE <<"Suitable for ages 12+">>,
     content_type |-> IF educational THEN "informational and educational" ELSE "entertainment",
     reading_level |-> IF child_age < 7 THEN "Simple vocabulary, appropriate for early readers"
                       ELSE IF child_age < 12 THEN "Appropriate vocabulary for middle-grade readers"
                       ELSE "Vocabulary suitable for young teens",
     confidence |-> "high",
     moderation_details |->
        [violence_level |-> "none", fear_level |-> "none",
         educational_value |-> IF educational THEN "high" ELSE "moderate",
         engagement_potential |-> IF engaging THEN "high" ELSE "moderate"]]

\* check_content_appropriateness mutated: the mild tier is tested first
check_content_mild_first(content, child_age) ==
    IF MatchedTerms(mild_concern_words, content) # <<>>
    THEN Ok("check_content", <<content, child_age>>, FlaggedVerdict(content, child_age))
    ELSE IF MatchedTerms(inappropriate_words, content) # <<>>
    THEN Ok("check_content", <<content, child_age>>, RejectedVerdict(content, child_age))
    ELSE Ok("check_content", <<content, child_age>>, CleanVerdict(content, child_age))

\* check_content_appropriateness mutated: the age threshold of flagged content is > 9
check_content_age_above_9(content, child_age) ==
    IF MatchedTerms(inappropriate_words, content) # <<>>
    THEN Ok("check_content", <<content, child_age>>, RejectedVerdict(content, child_age))
    ELSE IF MatchedTerms(mild_concern_words, content) # <<>>
    THEN Ok("check_content", <<content, child_age>>,
            [FlaggedVerdict(content, child_age) EXCEPT !.appropriate = child_age > 9])
    ELSE Ok("check_content", <<content, child_age>>, CleanVerdict(content, child_age))

\* check_content_appropriateness mutated: an empty text is refused
check_content_empty_raises(content, child_age) ==
    IF content = <<>>
    THEN Raise("check_content", <<content, child_age>>, "ValueError")
    ELSE IF MatchedTerms(inappropriate_words, content) # <<>>
    THEN Ok("check_content", <<content, child_age>>, RejectedVerdict(content, child_age))
    ELSE IF MatchedTerms(mild_concern_words, content) # <<>>
    THEN Ok("check_content", <<content, child_age>>, FlaggedVerdict(content, child_age))
    ELSE Ok("check_content", <<content, child_age>>, CleanVerdict(content, child_age))

\* check_content_appropriateness(content, child_age)
check_content_appropriateness(content, child_age) ==
    LET lowered == Lower(content)
        contains_inappropriate ==
            \E i \in 1..Len(inappropriate_words) : Contains(lowered, inappropriate_words[i])
        contains_mild_concern ==
            \E i \in 1..Len(mild_concern_words) : Contains(lowered, mild_concern_words[i])
    IN  IF contains_inappropriate
        THEN Ok("check_content", <<content, child_age>>, RejectedVerdict(content, child_age))
        ELSE IF contains_mild_concern
        THEN Ok("check_content", <<content, child_age>>, FlaggedVerdict(content, child_age))
        ELSE Ok("check_content", <<content, child_age>>, CleanVerdict(content, child_age))

\* the texts tried: concatenations of at most MaxPieces of these pieces
Pieces == {<<"b","l","o","o","d">>,
           <<"S","c","a","r","y">>,
           <<"s","k","i","l","l">>,
           <<"m","o","n","s","t","e","r">>,
           <<"D","A","R","K">>,
           <<"g","h">>,
           <<"o","s","t">>,
           <<" ">>,
           <<"f","u","n">>,
           <<"h","i","s","t","o","r","y">>}

RECURSIVE TextsUpTo(_)
TextsUpTo(n) ==
    IF n = 0 THEN {<<>>}
    ELSE TextsUpTo(n - 1) \cup {x \o p : x \in TextsUpTo(n - 1), p \in Pieces}
Texts == TextsUpTo(MaxPieces)

Ages == (0 - 1)..MaxAge

\* x = m followed by the statements K that read x: m is evaluated once,
\* before K
Bind(m, K(_)) == CHOOSE r \in {K(x) : x \in {m}} : TRUE

--------------------------------------------------------------------------
(* The pseudo-random generator of module `random`: one process-wide state, *)
(* set by random.seed(n) and advanced by every draw.                        *)

RngMod == 32
RngStates == 0..(RngMod - 1)

\* random.seed(n): the state is a function of n alone
SeedState(n) == n % RngMod

\* one step of the generator
Step(s) == (5 * s + 3) % RngMod

\* _randbelow(n): a value in 0..n-1 and the advanced state
RandBelow(s, n) == [v |-> ((Step(s) \div 8) + 3 * Step(s)) % n, s |-> Step(s)]

--------------------------------------------------------------------------
(* Draws of module `random`, each returning its value v and the state s    *)
(* it leaves.                                                              *)

\* random.randint(a, b)
RandInt(s, a, b) == LET r == RandBelow(s, b - a + 1) IN [v |-> a + r.v, s |-> r.s]

\* random.choice(seq)
Choice(s, seq) == LET r == RandBelow(s, Len(seq)) IN [v |-> seq[r.v + 1], s |-> r.s]

\* random.sample mutated: the selected element stays in the pool
RECURSIVE Sample_repeating(_, _, _)
Sample_repeating(s, pool, k) ==
    IF k = 0 THEN [v |-> <<>>, s |-> s]
    ELSE LET r == RandBelow(s, Len(pool))
             rest == Sample_repeating(r.s, pool, k - 1)
         IN  [v |-> <<pool[r.v + 1]>> \o rest.v, s |-> rest.s]

\* random.sample(population, k) for k <= len(population) <= 21: the pool algorithm
RECURSIVE Sample(_, _, _)
Sample(s, pool, k) ==
    IF k = 0 THEN [v |-> <<>>, s |-> s]
    ELSE LET n == Len(pool)
             r == RandBelow(s, n)
             moved == [pool EXCEPT ![r.v + 1] = pool[n]]
             rest == Sample(r.s, SubSeq(moved, 1, n - 1), k - 1)
         IN  [v |-> <<pool[r.v + 1]>> \o rest.v, s |-> rest.s]

\* random.shuffle(x): for i in reversed(range(1, len(x))): swap x[i], x[randbelow(i+1)]
RECURSIVE ShuffleFrom(_, _, _)
ShuffleFrom(s, x, i) ==
    IF i < 2 THEN [v |-> x, s |-> s]
    ELSE LET r == RandBelow(s, i)
             swapped == [x EXCEPT ![i] = x[r.v + 1], ![r.v + 1] = x[i]]
         IN  ShuffleFrom(r.s, swapped, i - 1)
Shuffle(s, x) == ShuffleFrom(s, x, Len(x))

\* round(random.uniform(a, b), 1), in tenths: lo10 and hi10 are 10*a and 10*b
UniformTenths(s, lo10, hi10) ==
    LET r == RandBelow(s, hi10 - lo10 + 1) IN [v |-> lo10 + r.v, s |-> r.s]

--------------------------------------------------------------------------
(* MockAREncountersProvider.generate_ar_encounters *)

historical_encounters == <<
    [type |-> "landmark", title |-> "Old Bridge", ar_model |-> "models/old_bridge_overlay.glb", interaction_type |-> "find_and_learn", reward |-> "History Badge: Bridge Builder"],
    [type |-> "character", title |-> "Pioneer Guide", ar_model |-> "models/pioneer_woman.glb", interaction_type |-> "talk_and_learn", reward |-> "History Fact: Pioneer Life"],
    [type |-> "puzzle", title |-> "Mining Tools", ar_model |-> "models/mining_tools.glb", interaction_type |-> "match_items", reward |-> "History Badge: Mining Expert"],
    [type |-> "landmark", title |-> "Native American Cairn", ar_model |-> "models/stone_cairn.glb", interaction_type |-> "learn_and_build", reward |-> "History Badge: Trail Marker"],
    [type |-> "puzzle", title |-> "Old Map Challenge", ar_model |-> "models/old_map_overlay.glb", interaction_type |-> "spot_differences", reward |-> "History Badge: Cartographer"],
    [type |-> "character", title |-> "Forest Ranger Historian", ar_model |-> "models/ranger_character.glb", interaction_type |-> "interview", reward |-> "History Badge: Forest Historian"],
    [type |-> "animal", title |-> "Historical Wildlife", ar_model |-> "models/historical_animals.glb", interaction_type |-> "observe_and_learn", reward |-> "History Badge: Wildlife Historian"],
    [type |-> "landmark", title |-> "Old Mill Ruins", ar_model |-> "models/mill_ruins.glb", interaction_type |-> "explore_ruins", reward |-> "History Badge: Industrial Archaeologist"] >>

fantasy_encounters == <<
    [type |-> "treasure", title |-> "Dragon's Treasure", ar_model |-> "models/treasure_chest.glb", interaction_type |-> "find_and_tap", reward |-> "Fantasy Badge: Treasure Hunter"],
    [type |-> "character", title |-> "Forest Fairy", ar_model |-> "models/forest_fairy.glb", interaction_type |-> "help_character", reward |-> "Magic Dust (virtual item)"],
    [type |-> "puzzle", title |-> "Wizard's Riddle", ar_model |-> "models/magic_book.glb", interaction_type |-> "solve_riddle", reward |-> "Fantasy Badge: Apprentice Wizard"],
    [type |-> "animal", title |-> "Friendly Forest Dragon", ar_model |-> "models/small_dragon.glb", interaction_type |-> "feed_and_pet", reward |-> "Fantasy Badge: Dragon Friend"],
    [type |-> "landmark", title |-> "Magic Crystal Formation", ar_model |-> "models/glowing_crystals.glb", interaction_type |-> "touch_and_change", reward |-> "Crystal Shard (virtual item)"],
    [type |-> "puzzle", title |-> "Enchanted Music Stones", ar_model |-> "models/music_stones.glb", interaction_type |-> "sequence_puzzle", reward |-> "Fantasy Badge: Music Mage"],
    [type |-> "character", title |-> "Talking Tree Guardian", ar_model |-> "models/talking_tree.glb", interaction_type |-> "listen_and_respond", reward |-> "Magical Seed (virtual item)"],
    [type |-> "treasure", title |-> "Fairy Ring", ar_model |-> "models/fairy_ring.glb", interaction_type |-> "discover_and_receive", reward |-> "Fantasy Badge: Fairy Friend"] >>

\* difficulty_options mutated: every age gets the pool of the oldest band
difficulty_options_any_age(child_age) == <<"easy", "medium", "hard">>

\* the difficulty pool of the requester's age
difficulty_options(child_age) ==
    IF child_age < 8 THEN <<"easy", "easy">>
    ELSE IF child_age < 12 THEN <<"easy", "medium">>
    ELSE <<"easy", "medium", "hard">>

\* seed = sum(ord(c) for c in route_id)
ar_seed(route_id) == SumOrd(route_id)

\* the loop over selected_encounters: id, difficulty draw, reward backfill
RECURSIVE ar_finish(_, _, _, _, _, _)
ar_finish(s, selected, i, route_id, narrative_mode, child_age) ==
    IF i > Len(selected) THEN [v |-> <<>>, s |-> s]
    ELSE LET base == selected[i]
             d == Choice(s, difficulty_options(child_age))
             reward == IF "reward" \in DOMAIN base THEN base.reward
                       ELSE IF base.type = "puzzle"
                            THEN <<narrative_mode, "Badge:", base.title, "Solver">>
                            ELSE <<narrative_mode, "Badge:", base.title, "Explorer">>
             encounter == [type |-> base.type, title |-> base.title,
                           ar_model |-> base.ar_model,
                           interaction_type |-> base.interaction_type,
                           id |-> <<base.type, Suffix(route_id, 5), i>>,
                           difficulty |-> d.v,
                           reward |-> reward]
             rest == ar_finish(d.s, selected, i + 1, route_id, narrative_mode, child_age)
         IN  [v |-> <<encounter>> \o rest.v, s |-> rest.s]

\* generate_ar_encounters after random.seed(seed): every draw, from state s
ar_draws(s, route_id, narrative_mode, child_age, count) ==
    LET args == <<route_id, narrative_mode, child_age, count>>
        possible_encounters == IF narrative_mode = "history" THEN historical_encounters
                               ELSE fantasy_encounters
        k == Min(count, Len(possible_encounters))
    IN  IF k < 0
        THEN [res |-> Raise("generate_ar_encounters", args, "ValueError"), s |-> s]
        ELSE LET selected == Sample(s, possible_encounters, k)
                 done == ar_finish(selected.s, selected.v, 1, route_id, narrative_mode, child_age)
             IN  [res |-> Ok("generate_ar_encounters", args, done.v), s |-> done.s]

\* generate_ar_encounters mutated: random.seed(seed) is missing
generate_ar_encounters_unseeded(s, route_id, narrative_mode, child_age, count) ==
    ar_draws(s, route_id, narrative_mode, child_age, count)

\* generate_ar_encounters(route_id, narrative_mode, child_age, count), called
\* when the generator is in state s: the outcome res and the state s it leaves
generate_ar_encounters(s, route_id, narrative_mode, child_age, count) ==
    ar_draws(SeedState(ar_seed(route_id)), route_id, narrative_mode, child_age, count)

--------------------------------------------------------------------------
(* A run of consecutive draws: each element of script is one call of       *)
(* module `random`; the values come back in call order.                    *)

D_randint(a, b) == [k |-> "randint", a |-> a, b |-> b]
D_choice(seq) == [k |-> "choice", seq |-> seq]
\* random.sample(pool, k=random.randint(a, b)): the argument is drawn first
D_sample(pool, a, b) == [k |-> "sample", pool |-> pool, a |-> a, b |-> b]
\* round(random.uniform(a, b), 1) with a and b in tenths
D_uniform(a10, b10) == [k |-> "uniform", a |-> a10, b |-> b10]

DrawOne(s, d) ==
    CASE d.k = "randint" -> RandInt(s, d.a, d.b)
      [] d.k = "choice"  -> Choice(s, d.seq)
      [] d.k = "sample"  -> LET n == RandInt(s, d.a, d.b) IN Sample(n.s, d.pool, n.v)
      [] d.k = "uniform" -> UniformTenths(s, d.a, d.b)

\* the draws script[lo..hi] in call order, the run split in two halves
RECURSIVE DrawsFrom(_, _, _, _)
DrawsFrom(s, script, lo, hi) ==
    IF lo > hi THEN [v |-> <<>>, s |-> s]
    ELSE IF lo = hi
    THEN Bind(DrawOne(s, script[lo]), LAMBDA d : [v |-> <<d.v>>, s |-> d.s])
    ELSE Bind(DrawsFrom(s, script, lo, (lo + hi) \div 2), LAMBDA left :
         Bind(DrawsFrom(left.s, script, ((lo + hi) \div 2) + 1, hi), LAMBDA right :
             [v |-> left.v \o right.v, s |-> right.s]))
Draws(s, script) == DrawsFrom(s, script, 1, Len(script))

Bools == <<TRUE, FALSE>>

\* sum and maximum of a sequence of integers
RECURSIVE SumSeq(_)
SumSeq(q) == IF q = <<>> THEN 0 ELSE Head(q) + SumSeq(Tail(q))
RECURSIVE MaxSeq(_)
MaxSeq(q) == IF Len(q) = 1 THEN q[1] ELSE Max(q[1], MaxSeq(Tail(q)))

--------------------------------------------------------------------------
(* Identifiers used as inputs *)

s_family_ == <<"f", "a", "m", "i", "l", "y", "_">>
s_user_ == <<"u", "s", "e", "r", "_">>
s_trail_ == <<"t", "r", "a", "i", "l", "_">>
s_0 == <<"0">>
family_1 == s_family_ \o <<"1">>
family_2 == s_family_ \o <<"2">>
family_12 == s_family_ \o <<"1", "2">>
family_21 == s_family_ \o <<"2", "1">>
user_12 == s_user_ \o <<"1", "2">>
family_x == s_family_ \o <<"x">>
trail_1 == s_trail_ \o <<"1">>
trail_12 == s_trail_ \o <<"1", "2">>
trail_21 == s_trail_ \o <<"2", "1">>

--------------------------------------------------------------------------
(* MockUsersProvider.get_family *)

\* int(family_id.replace("family_", "0").replace("user_", "0")): the text
\* handed to int()
family_seed_text(family_id) == Replace(Replace(family_id, s_family_, s_0), s_user_, s_0)

\* the two families held as templates (their fixed fields)
family_templates(family_id) ==
    IF family_id = family_1
    THEN [id |-> family_id, name |-> "Adventure Smiths", created_date |-> "2025-06-15",
          members |-> << [id |-> "user_123", name |-> "John", role |-> "parent", total_hikes |-> 12],
                         [id |-> "user_124", name |-> "Emma", role |-> "child", total_hikes |-> 10],
                         [id |-> "user_125", name |-> "Michael", role |-> "child", total_hikes |-> 9] >>,
          trails_completed |-> 12, total_distance |-> 423]
    ELSE [id |-> family_id, name |-> "Nature Explorers", created_date |-> "2025-05-22",
          members |-> << [id |-> "user_223", name |-> "Sarah", role |-> "parent", total_hikes |-> 18],
                         [id |-> "user_224", name |-> "David", role |-> "parent", total_hikes |-> 22],
                         [id |-> "user_225", name |-> "Olivia", role |-> "child", total_hikes |-> 16] >>,
          trails_completed |-> 18, total_distance |-> 875]
TemplateIds == {family_1, family_2}

family_names == <<"Nature Explorers", "Trail Blazers", "Mountain Seekers", "Forest Friends",
                  "Adventure Crew", "Hiking Heroes", "Wilderness Wanderers", "Outdoor Explorers">>
parent_names_male == <<"John", "Michael", "David", "Robert", "James", "William", "Thomas", "Richard">>
parent_names_female == <<"Mary", "Sarah", "Jennifer", "Elizabeth", "Susan", "Patricia", "Lisa", "Karen">>
child_names_male == <<"Ethan", "Noah", "Liam", "Mason", "Jacob", "William", "Benjamin", "Michael", "Alexander">>
child_names_female == <<"Emma", "Olivia", "Sophia", "Ava", "Isabella", "Mia", "Charlotte", "Amelia", "Harper">>

character_options(narrative_preference) ==
    CASE narrative_preference = "fantasy" -> <<"dragons", "fairies", "wizards", "friendly monsters", "talking animals">>
      [] narrative_preference = "history" -> <<"pioneers", "native guides", "explorers", "settlers">>
      [] narrative_preference = "science" -> <<"scientists", "explorers", "nature guides", "inventors">>

interests_options(narrative_preference) ==
    CASE narrative_preference = "fantasy" -> <<"magical creatures", "finding hidden things", "magical powers", "treasure hunting", "collecting badges">>
      [] narrative_preference = "history" -> <<"old tools", "how people lived", "old stories", "artifacts", "historical figures">>
      [] narrative_preference = "science" -> <<"rocks and minerals", "animal tracking", "plant identification", "weather patterns", "experiments">>

\* one parent member: the i-th of range(num_parents), drawn from state s
family_parent(s, i) ==
    Bind(IF i = 0 THEN "male" ELSE "female", LAMBDA parent_gender :
    Bind(Draws(s, <<
                D_choice(IF parent_gender = "male" THEN parent_names_male ELSE parent_names_female),
                D_randint(1000, 9999),
                D_choice(<<"history", "fantasy", "science", "mixed">>),
                D_choice(<<"easy", "moderate", "hard">>),
                D_uniform(30, 150),
                D_sample(<<"local history", "geology", "wildlife", "photography", "botany", "navigation">>, 2, 3),
                D_sample(<<"educational content", "viewpoints", "rest areas", "challenging terrain", "wildlife habitats", "scenic views">>, 2, 3),
                D_randint(5, 25),
                D_sample(<<"Trail Pioneer", "History Explorer", "Wildlife Spotter", "Peak Bagger", "Plant Identifier">>, 2, 3),
                D_choice(Bools), D_choice(Bools),
                D_choice(<<"miles", "kilometers">>) >>), LAMBDA d :
    \* round(total_hikes * random.uniform(2.0, 5.0), 1), in tenths
    Bind(UniformTenths(d.s, 20 * d.v[8], 50 * d.v[8]), LAMBDA total_distance :
        [v |-> [id |-> <<"user_", d.v[2]>>, name |-> d.v[1], role |-> "parent",
                preferences |-> [narrative_preference |-> d.v[3], difficulty_preference |-> d.v[4],
                                 max_distance |-> d.v[5], interests |-> d.v[6],
                                 favorite_features |-> d.v[7]],
                activity_stats |-> [total_hikes |-> d.v[8], badges_earned |-> d.v[9],
                                    total_distance |-> total_distance.v],
                settings |-> [notifications |-> d.v[10], share_achievements |-> d.v[11],
                              units |-> d.v[12]]],
         s |-> total_distance.s])))

\* one child member, drawn from state s
family_child(s) ==
    Bind(Choice(s, <<"male", "female">>), LAMBDA child_gender :
    Bind(Draws(child_gender.s, <<
                D_choice(IF child_gender.v = "male" THEN child_names_male ELSE child_names_female),
                D_randint(5, 14),
                D_choice(<<"fantasy", "history", "science">>),
                D_sample(<<"animals", "treasure", "puzzles", "characters", "landmark">>, 2, 3) >>), LAMBDA d :
    LET child_age == d.v[2]
        narrative_preference == d.v[3]
    IN
    Bind(Draws(d.s, <<
                D_sample(character_options(narrative_preference), 2, 3),
                D_sample(interests_options(narrative_preference), 2, 3),
                D_randint(child_age - 2, child_age + 5),
                D_randint(child_age - 3, child_age + 2),
                D_randint(child_age, child_age * 3),
                D_randint(1000, 9999),
                D_sample(<<"Junior Explorer", "Animal Friend", "Plant Spotter", "Trail Helper", "Junior Scientist", "History Detective">>, 2, 3),
                D_sample(<<"deer", "rabbit", "blue jay", "squirrel", "hawk", "frog", "butterfly", "salamander">>, 3, 5) >>), LAMBDA e :
        [v |-> [id |-> <<"user_", e.v[6]>>, name |-> d.v[1], role |-> "child", age |-> child_age,
                preferences |-> [narrative_preference |-> narrative_preference,
                                 favorite_encounters |-> d.v[4],
                                 favorite_characters |-> e.v[1], interests |-> e.v[2]],
                activity_stats |-> [total_hikes |-> Min(20, e.v[3]), badges_earned |-> e.v[7],
                                    completed_puzzles |-> Min(15, e.v[4])],
                learning_progress |-> [nature_facts_learned |-> Min(40, e.v[5]),
                                       wildlife_identified |-> e.v[8]]],
         s |-> e.s])))

\* the two member loops: parents i = 0 .. num_parents-1, then the children
\* (members.append(parent), members.append(child))
RECURSIVE family_parents(_, _, _, _)
family_parents(s, i, num_parents, members) ==
    IF i >= num_parents THEN [v |-> members, s |-> s]
    ELSE Bind(family_parent(s, i), LAMBDA p :
             family_parents(p.s, i + 1, num_parents, Append(members, p.v)))

RECURSIVE family_children(_, _, _)
family_children(s, num_children, members) ==
    IF num_children = 0 THEN [v |-> members, s |-> s]
    ELSE Bind(family_child(s), LAMBDA c :
             family_children(c.s, num_children - 1, Append(members, c.v)))

\* member fields read by the family achievements
member_total_distance(m) ==
    IF "total_distance" \in DOMAIN m.activity_stats THEN m.activity_stats.total_distance ELSE 0

\* get_family after random.seed(family_seed): the template, or every draw from s
family_draws(s, family_id) ==
    IF family_id \in TemplateIds
    THEN [res |-> Ok("get_family", <<family_id>>, family_templates(family_id)), s |-> s]
    ELSE
    Bind(Draws(s, << D_choice(family_names), D_randint(1, 2), D_randint(1, 3) >>), LAMBDA head :
    Bind(family_parents(head.s, 0, head.v[2], <<>>), LAMBDA parents :
    Bind(family_children(parents.s, head.v[3], parents.v), LAMBDA children :
    LET members == children.v
        total_hikes == MaxSeq([i \in 1..Len(members) |-> members[i].activity_stats.total_hikes])
        summed == SumSeq([i \in 1..Len(members) |-> member_total_distance(members[i])])
    IN
    \* if total_distance == 0: round(total_hikes * random.uniform(2.5, 4.0), 1)
    Bind(IF summed = 0
         THEN UniformTenths(children.s, 25 * total_hikes, 40 * total_hikes)
         ELSE [v |-> summed, s |-> children.s], LAMBDA total_distance :
    Bind(Draws(total_distance.s, <<
                D_randint(1, 9), D_randint(10, 28),
                \* int(total_distance * random.uniform(20, 40))
                D_randint((20 * total_distance.v) \div 10, (40 * total_distance.v) \div 10),
                D_sample(<<"Family Explorer", "Nature Lovers", "Adventure Team", "Trail Pioneers", "Wildlife Experts", "Summit Team">>, 2, 3),
                D_sample(<<"Completed 5 trails in one month", "Identified 20 different plants", "Hiked in 3 different parks", "Completed a trail rated difficult", "Logged 50 total miles as a family">>, 1, 2),
                D_choice(<<"summer_explorer", "waterfall_seekers", "park_explorer", "summit_seekers">>),
                D_randint(1, 8), D_randint(5, 10),
                D_choice(<<"trails completed", "waterfalls visited", "parks visited", "summits reached">>),
                D_randint(10000, 99999), D_randint(5, 9), D_randint(1, 28),
                D_randint(10000, 99999), D_randint(5, 9), D_randint(1, 28),
                D_choice(<<"Mary", "John", "Sarah", "David", "Elizabeth", "Michael">>),
                D_choice(<<"Smith", "Jones", "Williams", "Brown", "Taylor">>),
                D_randint(1000, 9999),
                D_choice(Bools), D_choice(Bools) >>), LAMBDA d :
        [res |-> Ok("get_family", <<family_id>>,
            [id |-> family_id, name |-> head.v[1],
             created_date |-> <<"2025-0", d.v[1], "-", d.v[2]>>,
             members |-> members,
             family_achievements |->
                [trails_completed |-> total_hikes, total_distance |-> total_distance.v,
                 total_elevation_gain |-> d.v[3], badges |-> d.v[4],
                 special_achievements |-> d.v[5],
                 challenge_progress |-> [key |-> d.v[6], done |-> d.v[7], of |-> d.v[8], unit |-> d.v[9]]],
             saved_trails |-> << [id |-> <<"route_", d.v[10]>>, name |-> "Woodland Wonder Trail",
                                  saved_date |-> <<"2025-0", d.v[11], "-", d.v[12]>>],
                                 [id |-> <<"route_", d.v[13]>>, name |-> "Mountain Explorer Path",
                                  saved_date |-> <<"2025-0", d.v[14], "-", d.v[15]>>] >>,
             safety_settings |-> [emergency_contact |-> <<d.v[16], d.v[17], "555-", d.v[18]>>,
                                  share_location |-> TRUE, auto_check_in |-> d.v[19],
                                  weather_alerts |-> TRUE, safe_zones_only |-> d.v[20]]]),
         s |-> d.s])))))

\* get_family(family_id), called when the generator is in state s: the
\* outcome res and the state s it leaves; int() raises before seeding
get_family(s, family_id) ==
    IF ~IntParses(family_seed_text(family_id))
    THEN [res |-> Raise("get_family", <<family_id>>, "ValueError"), s |-> s]
    ELSE family_draws(SeedState(IntValue(family_seed_text(family_id), 0)), family_id)

--------------------------------------------------------------------------
(* MockUsersProvider.get_family_progress.  Distances are in tenths of a    *)
(* kilometre; a date is the number of days before 2025-09-04, so that the  *)
(* newest-first order of dates is the ascending order of these numbers.    *)

\* list.sort, stable, by the key of each element (ascending)
RECURSIVE InsertBy(_, _, _)
InsertBy(x, kx, q) ==
    IF q = <<>> THEN <<x>>
    ELSE IF q[Len(q)].k <= kx THEN q \o <<x>>
    ELSE InsertBy(x, kx, SubSeq(q, 1, Len(q) - 1)) \o <<q[Len(q)]>>
RECURSIVE SortKeyed(_, _)
SortKeyed(q, n) ==
    IF n = 0 THEN <<>> ELSE InsertBy(q[n], q[n].k, SortKeyed(q, n - 1))
\* completed_dates.sort(reverse=True) on days-before-today
SortDates(days) ==
    LET keyed == [i \in 1..Len(days) |-> [k |-> days[i], x |-> days[i]]]
        sorted == SortKeyed(keyed, Len(keyed))
    IN  [i \in 1..Len(sorted) |-> sorted[i].x]

trail_names == <<"Woodland Wonder Trail", "Mountain Explorer Path", "Riverside Stroll",
                 "Eagle Summit Path", "Waterfall Explorer Trail", "Valley View Loop",
                 "Historic Mining Trail", "Meadow Explorer Path", "Pine Ridge Loop",
                 "Hidden Lake Circuit">>
nature_badges == <<"Nature Explorer", "Trail Pioneer", "Wildlife Spotter", "Forest Friend",
                   "Bird Watcher", "Plant Identifier", "Rock Collector", "Weather Watcher">>
history_badges == <<"History Buff", "Time Traveler", "Heritage Seeker", "Cultural Explorer",
                    "Pioneer Spirit", "Artifact Finder", "Legend Hunter", "Monument Visitor">>
fantasy_badges == <<"Treasure Hunter", "Dragon Friend", "Fairy Finder", "Wizard's Apprentice",
                    "Monster Spotter", "Magic Collector", "Quest Completer", "Fantasy Hero">>
adventure_badges == <<"Summit Seeker", "Trail Master", "Distance Champion", "Early Bird Hiker",
                      "All Weather Hiker", "Night Explorer", "Terrain Tackler", "Weekend Warrior">>
family_badges == <<"Family Explorer", "Team Adventure", "Memory Makers", "Photo Champions",
                   "Journal Keepers", "Trail Family", "Outdoor Crew", "Nature Clan">>
weathers == <<"Sunny", "Partly Cloudy", "Overcast", "Light Rain", "Perfect">>
achievements == <<"Reached the summit", "Found a hidden waterfall", "Spotted rare wildlife",
                  "Completed the entire trail in record time", "Discovered a scenic viewpoint",
                  "Completed all AR encounters", "Solved all trail puzzles">>

\* if badge not in all_badges_earned: all_badges_earned.append(badge), for each badge
RECURSIVE AppendNew(_, _)
AppendNew(all, badges) ==
    IF badges = <<>> THEN all
    ELSE AppendNew(IF Head(badges) \in Range(all) THEN all ELSE Append(all, Head(badges)),
                   Tail(badges))

\* for j in range(min(num_badges, 4)): badge = random.choice(badge_categories[j])
\* (badges_earned.append(badge))
RECURSIVE progress_badges(_, _, _, _, _)
progress_badges(s, badge_categories, j, n, badges_earned) ==
    IF j > n THEN [v |-> badges_earned, s |-> s]
    ELSE Bind(Choice(s, badge_categories[j]), LAMBDA badge :
             progress_badges(badge.s, badge_categories, j + 1, n, Append(badges_earned, badge.v)))

\* one iteration of the loop that builds completed_routes: trip i (from 0)
progress_route(s, i, completion_date) ==
    Bind(Draws(s, << D_randint(10000, 99999), D_choice(trail_names),
                     D_uniform(15, 85), D_randint(0, 3) >>), LAMBDA d :
    LET num_badges == d.v[4] IN
    Bind(IF num_badges > 0
         THEN Shuffle(d.s, <<nature_badges, history_badges, fantasy_badges, adventure_badges>>)
         ELSE [v |-> <<>>, s |-> d.s], LAMBDA badge_categories :
    Bind(IF num_badges > 0
         THEN progress_badges(badge_categories.s, badge_categories.v, 1, Min(num_badges, 4), <<>>)
         ELSE [v |-> <<>>, s |-> d.s], LAMBDA badges_earned :
    Bind(RandInt(badges_earned.s, 0, 4), LAMBDA num_photos :
    \* random.random() < 0.3, the draw taken in tenths
    Bind(RandBelow(num_photos.s, 10), LAMBDA chance :
    Bind(IF chance.v < 3
         THEN Draws(chance.s, << D_choice(achievements) >>)
         ELSE [v |-> <<>>, s |-> chance.s], LAMBDA special_achievements :
    Bind(Draws(special_achievements.s, << D_randint(45, 180), D_choice(weathers), D_randint(3, 5) >>), LAMBDA e :
        [v |-> [route_id |-> <<"route_", d.v[1]>>, route_name |-> d.v[2],
                completion_date |-> completion_date, duration |-> e.v[1],
                distance |-> d.v[3], badges_earned |-> badges_earned.v,
                photos |-> [j \in 1..num_photos.v |-> <<"trip", i + 1, "_photo", j>>],
                weather |-> e.v[2], rating |-> e.v[3],
                special_achievements |-> special_achievements.v],
         s |-> e.s])))))))

\* the body of the loop mutated: total_distance = distance instead of
\* total_distance += distance
progress_routes_step_last_distance(acc, i, completed_dates) ==
    Bind(progress_route(acc.s, i, completed_dates[i + 1]), LAMBDA r :
        [v |-> Append(acc.v, r.v),
         badges |-> AppendNew(acc.badges, r.v.badges_earned),
         total |-> r.v.distance,
         s |-> r.s])

\* the body of the loop over range(num_completed_routes), on its accumulators
\* completed_routes (v), all_badges_earned (badges) and total_distance (total):
\* completed_routes.append(completed_route), total_distance += distance
progress_routes_step(acc, i, completed_dates) ==
    Bind(progress_route(acc.s, i, completed_dates[i + 1]), LAMBDA r :
        [v |-> Append(acc.v, r.v),
         badges |-> AppendNew(acc.badges, r.v.badges_earned),
         total |-> acc.total + r.v.distance,
         s |-> r.s])

\* the iterations lo..hi of the loop in order, the range split in two halves
RECURSIVE progress_routes(_, _, _, _)
progress_routes(acc, lo, hi, completed_dates) ==
    IF lo > hi THEN acc
    ELSE IF lo = hi THEN progress_routes_step(acc, lo, completed_dates)
    ELSE Bind(progress_routes(acc, lo, (lo + hi) \div 2, completed_dates), LAMBDA left :
             progress_routes(left, ((lo + hi) \div 2) + 1, hi, completed_dates))

journal_titles == <<"Our adventure in the woods", "Family hike day", "Exploring new trails",
                    "Magical forest journey", "Mountain views and memories", "Waterfall discovery",
                    "Nature day with the kids", "Wildlife spotting hike", "Weekend trail adventure",
                    "Sunny day exploration">>
trail_features == <<"the scenic viewpoints", "the hidden waterfall", "the ancient trees",
                    "the wildlife spotting areas", "the creek crossings", "the rocky outcroppings",
                    "the meadow of wildflowers", "the historical markers", "the moss-covered stones">>
wildlife == <<"a family of deer", "several colorful birds", "a busy squirrel", "butterflies",
              "rabbits", "a hawk circling above", "frogs by the creek", "interesting insects",
              "animal tracks">>
items == <<"more snacks", "binoculars", "a better camera", "a field guide", "walking sticks",
           "a picnic lunch", "our bird identification book">>
educational_topics == <<"local geology", "native plants", "forest ecosystems",
                        "bird migration patterns", "historical landmarks", "weather patterns",
                        "animal habitats", "conservation efforts">>

\* journal_content_templates, each by what follows its placeholders after the
\* first: the keyword found in template.split("{}")[1:][i] ("either" when none)
journal_content_templates == <<
    <<"either", "items", "either">>,
    <<"wildlife", "either", "either">>,
    <<"either", "educational_topics", "either">>,
    <<"weather", "trail_features", "either", "badges">>,
    <<"either", "either", "either">> >>

\* placeholder_options: a list to choose from later, or a finished string
placeholder_option(s, part, weather) ==
    CASE part = "wildlife" -> [v |-> [list |-> TRUE, x |-> wildlife], s |-> s]
      [] part = "trail_features" -> [v |-> [list |-> TRUE, x |-> trail_features], s |-> s]
      [] part = "educational_topics" -> [v |-> [list |-> TRUE, x |-> educational_topics], s |-> s]
      [] part = "badges" -> Bind(RandInt(s, 1, 3), LAMBDA n :
                                [v |-> [list |-> FALSE, x |-> n.v], s |-> n.s])
      [] part = "weather" -> [v |-> [list |-> FALSE, x |-> weather], s |-> s]
      [] part = "items" -> [v |-> [list |-> TRUE, x |-> items], s |-> s]
      [] OTHER -> Bind(Choice(s, <<trail_features, wildlife>>), LAMBDA c :
                      [v |-> [list |-> TRUE, x |-> c.v], s |-> c.s])

RECURSIVE placeholder_options(_, _, _, _, _)
placeholder_options(s, remaining_parts, i, weather, options) ==
    IF i > Len(remaining_parts) THEN [v |-> options, s |-> s]
    ELSE Bind(placeholder_option(s, remaining_parts[i], weather), LAMBDA opt :
             placeholder_options(opt.s, remaining_parts, i + 1, weather, Append(options, opt.v)))

\* the loop that builds content: one choice for each option that is a list
RECURSIVE journal_fill(_, _, _, _)
journal_fill(s, options, i, content) ==
    IF i > Len(options) THEN [v |-> content, s |-> s]
    ELSE Bind(IF options[i].list THEN Choice(s, options[i].x)
              ELSE [v |-> options[i].x, s |-> s], LAMBDA f :
             journal_fill(f.s, options, i + 1, Append(content, f.v)))

\* one journal entry: entry i (from 0) of range(num_journal_entries)
progress_journal_entry(s, i, completed_routes) ==
    LET related == i < Len(completed_routes) IN
    Bind(IF related
         THEN [v |-> << completed_routes[i + 1].completion_date,
                        completed_routes[i + 1].route_name,
                        completed_routes[i + 1].weather >>, s |-> s]
         ELSE Draws(s, << D_randint(0, 120), D_choice(trail_names), D_choice(weathers) >>), LAMBDA given :
    LET date == given.v[1]
        trail_name == given.v[2]
        weather == given.v[3]
    IN
    Bind(Choice(given.s, <<1, 2, 3, 4, 5>>), LAMBDA template :
    LET remaining_parts == journal_content_templates[template.v] IN
    Bind(placeholder_options(template.s, remaining_parts, 1, weather, <<>>), LAMBDA options :
    Bind(journal_fill(options.s, options.v, 1, <<>>), LAMBDA fill :
    Bind(RandInt(fill.s, 0, 3), LAMBDA num_photos :
    Bind(Draws(num_photos.s, << D_choice(journal_titles),
                    D_choice(<<"Excited", "Happy", "Peaceful", "Adventurous", "Proud">>),
                    D_choice(<<"Mom", "Dad", "Emma", "Michael", "The whole family">>) >>), LAMBDA d :
        [v |-> [date |-> date, title |-> d.v[1],
                content |-> [template |-> template.v, trail_name |-> trail_name, fills |-> fill.v],
                \* the inner loop variable i is left at len(remaining_parts) - 1
                photos |-> [j \in 1..num_photos.v |-> <<"journal", Len(remaining_parts), "_photo", j>>],
                mood |-> d.v[2], author |-> d.v[3]],
         s |-> d.s]))))))

\* the iterations lo..hi of the loop over range(num_journal_entries), the
\* range split in two halves (journal_entries.append(...))
RECURSIVE progress_journal(_, _, _, _)
progress_journal(acc, lo, hi, completed_routes) ==
    IF lo > hi THEN acc
    ELSE IF lo = hi
    THEN Bind(progress_journal_entry(acc.s, lo, completed_routes), LAMBDA e :
             [v |-> Append(acc.v, e.v), s |-> e.s])
    ELSE Bind(progress_journal(acc, lo, (lo + hi) \div 2, completed_routes), LAMBDA left :
             progress_journal(left, ((lo + hi) \div 2) + 1, hi, completed_routes))

\* journal_entries.sort(key=lambda x: x["date"], reverse=True)
SortJournal(entries) ==
    LET keyed == [i \in 1..Len(entries) |-> [k |-> entries[i].date, x |-> entries[i]]]
        sorted == SortKeyed(keyed, Len(keyed))
    IN  [i \in 1..Len(sorted) |-> sorted[i].x]

\* number of occurrences of x in q: list.count
Count(q, x) == Cardinality({i \in 1..Len(q) : q[i] = x})

\* max(set(names), key=names.count): the set is iterated in an order that is
\* fixed within one process; it is taken as the order of trail_names
favorite_trail(names) ==
    LET best == MaxSeq([i \in 1..Len(names) |-> Count(names, names[i])])
        first_best == CHOOSE i \in 1..Len(trail_names) :
                         /\ Count(names, trail_names[i]) = best
                         /\ \A j \in 1..(i - 1) : Count(names, trail_names[j]) # best
    IN  trail_names[first_best]

\* round(a / n, 1) for a in tenths: the nearest tenth
RoundDiv(a, n) == (2 * a + n) \div (2 * n)

\* get_family_progress after random.seed(...): every draw, from state s
progress_draws(s, family_id) ==
    Bind(RandInt(s, 3, 10), LAMBDA num_completed_routes :
    Bind(Draws(num_completed_routes.s,
               [i \in 1..num_completed_routes.v |-> D_randint(0, 120)]), LAMBDA days_ago :
    Bind(progress_routes([v |-> <<>>, badges |-> <<>>, total |-> 0, s |-> days_ago.s],
                         0, num_completed_routes.v - 1, SortDates(days_ago.v)), LAMBDA routes :
    Bind(DrawOne(routes.s, D_sample(family_badges, 1, 3)), LAMBDA family_specific_badges :
    Bind(RandInt(family_specific_badges.s, 1, Min(5, num_completed_routes.v)), LAMBDA num_journal_entries :
    Bind(progress_journal([v |-> <<>>, s |-> num_journal_entries.s],
                          0, num_journal_entries.v - 1, routes.v), LAMBDA journal :
    LET completed_routes == routes.v
        distances == [i \in 1..Len(completed_routes) |-> completed_routes[i].distance]
        total_distance == routes.total
        all_badges_earned == AppendNew(routes.badges, family_specific_badges.v)
        n == num_completed_routes.v
    IN
    \* int(total_distance * random.uniform(20, 40))
    Bind(RandInt(journal.s, (20 * total_distance) \div 10,
                            (40 * total_distance) \div 10), LAMBDA total_elevation_gain :
    Bind(Draws(total_elevation_gain.s, << D_randint(n * 2, n * 5), D_randint(n * 2, n * 6),
                                          D_randint(n, n * 3) >>), LAMBDA stats :
    Bind(Draws(stats.s, << D_randint(1, 3), D_randint(n * 3, n * 10),
                           D_randint(n * 2, n * 8) >>), LAMBDA tail :
        [res |-> Ok("get_family_progress", <<family_id>>,
            [completed_routes |-> completed_routes,
             badges |-> all_badges_earned,
             total_distance |-> total_distance,
             total_routes |-> n,
             total_elevation_gain |-> total_elevation_gain.v,
             journal_entries |-> SortJournal(journal.v),
             milestone_achievements |->
                (IF total_distance >= 100 THEN << <<"Hiked", total_distance \div 10>> >> ELSE <<>>)
                \o (IF total_elevation_gain.v >= 500 THEN << <<"Climbed", total_elevation_gain.v>> >> ELSE <<>>)
                \o (IF n >= 5 THEN << <<"Completed", n>> >> ELSE <<>>)
                \o (IF Len(all_badges_earned) >= 5 THEN << <<"Earned", Len(all_badges_earned)>> >> ELSE <<>>),
             adventure_stats |->
                [longest_hike |-> MaxSeq(distances),
                 average_hike_distance |-> RoundDiv(total_distance, n),
                 favorite_trail |-> favorite_trail([i \in 1..n |-> completed_routes[i].route_name]),
                 wildlife_encountered |-> stats.v[1],
                 ar_encounters_completed |-> stats.v[2],
                 puzzles_solved |-> stats.v[3]],
             favorite_routes |-> << [route_id |-> completed_routes[1].route_id,
                                     route_name |-> completed_routes[1].route_name] >>,
             completion_streak |-> tail.v[1],
             learning_progress |-> [nature_facts |-> tail.v[2], historical_knowledge |-> tail.v[3]]]),
         s |-> tail.s])))))))))

\* get_family_progress(family_id), called when the generator is in state s
get_family_progress(s, family_id) ==
    IF ~IntParses(family_seed_text(family_id))
    THEN [res |-> Raise("get_family_progress", <<family_id>>, "ValueError"), s |-> s]
    ELSE progress_draws(SeedState(IntValue(family_seed_text(family_id), 0)), family_id)

--------------------------------------------------------------------------
(* MockUsersProvider.complete_route and register_family: they draw from    *)
(* the generator as they find it.                                          *)

complete_route(s, family_id, route_id, activity) ==
    Bind(Draws(s, <<
                D_randint(1000, 9999), D_randint(50, 200),
                D_sample(<<"First September Hike", "Trail Expert Level 2", "Wildlife Observer", "3-Trail Weekend">>, 0, 2),
                D_randint(2, 15), D_uniform(85, 500), D_randint(5, 20),
                D_randint(10000, 99999),
                D_choice(<<"Sunset Ridge Trail", "Crystal Lake Loop", "Ancient Forest Path", "River Rapids Trail">>),
                D_choice(<<"easy", "moderate", "hard">>),
                D_uniform(20, 100),
                D_choice(Bools) >>), LAMBDA d :
        [res |-> Ok("complete_route", <<family_id, route_id, activity>>,
            [message |-> "Route completion recorded",
             completion_id |-> <<"completion_", Suffix(family_id, 4), Suffix(route_id, 4), d.v[1]>>,
             badges_earned |-> IF "badges_earned" \in DOMAIN activity THEN activity.badges_earned ELSE <<>>,
             experience_points |-> d.v[2],
             achievements_unlocked |-> d.v[3],
             family_progress |-> [total_routes |-> d.v[4], total_distance |-> d.v[5],
                                  badges_count |-> d.v[6]],
             next_recommended_trails |-> << [id |-> <<"route_", d.v[7]>>, name |-> d.v[8],
                                             difficulty |-> d.v[9], distance |-> d.v[10]] >>,
             challenge_progress_updated |-> d.v[11],
             streak_maintained |-> TRUE]),
         s |-> d.s])

\* family.get("id", f"family_{random.randint(1000, 9999)}"): the default is
\* evaluated, and the draw made, whether or not the family has an id
register_family(s, family) ==
    LET default == RandInt(s, 1000, 9999)
        payload == [message |-> "Family registered successfully",
                    family_id |-> IF "id" \in DOMAIN family THEN family.id
                                  ELSE <<"family_", default.v>>,
                    account_status |-> "active",
                    welcome_badge |-> "Trail Pioneer",
                    onboarding_complete |-> FALSE]
    IN  [res |-> Ok("register_family", <<family>>, payload), s |-> default.s]

--------------------------------------------------------------------------
(* MockNarrativesProvider.  A user id "user_<n>" is the number n; a        *)
(* history is the dictionary _narrative_history of one provider instance,  *)
(* an absent key being the empty list.                                     *)

\* age_group mutated: the first band reaches up to age 8
age_group_of_upto_8(child_age) ==
    IF child_age <= 8 THEN "younger" ELSE IF child_age < 12 THEN "middle" ELSE "older"

\* "younger" if child_age < 8 else "middle" if child_age < 12 else "older"
age_group_of(child_age) ==
    IF child_age < 8 THEN "younger" ELSE IF child_age < 12 THEN "middle" ELSE "older"

\* the titles named by the if/elif chains of _get_historical_narrative and
\* _get_fantasy_narrative
historical_titles == <<"The Old Forest Bridge", "The Miner's Cabin",
                       "The Native American Trail", "The Old Schoolhouse">>
fantasy_titles == <<"The Dragon's Bridge", "The Wizard's Cabin",
                    "The Fairy Meadow", "The Talking Tree">>

\* base_narratives of _get_historical_narrative
historical_base_narratives == <<
    [title |-> "The Old Forest Bridge", waypoint_id |-> "wp1",
     images |-> <<"bridge_old_photo.jpg", "bridge_now.jpg">>,
     facts |-> <<"The bridge is over 130 years old", "It was renovated in 1950",
                 "Local legend says that a time capsule is hidden in one of the pillars">>],
    [title |-> "The Miner's Cabin", waypoint_id |-> "wp2",
     images |-> <<"cabin.jpg">>,
     facts |-> <<"Gold was discovered here in 1865", "Over 500 miners lived in this area",
                 "The last mining operation closed in 1920">>],
    [title |-> "The Native American Trail", waypoint_id |-> "wp3",
     images |-> <<"trail_marker.jpg", "artifacts.jpg">>,
     facts |-> <<"This trail has been used for over 3,000 years",
                 "Arrowheads and tools have been found nearby",
                 "Several different tribes used this route for trading">>],
    [title |-> "The Old Schoolhouse", waypoint_id |-> "wp4",
     images |-> <<"schoolhouse.jpg", "classroom.jpg">>,
     facts |-> <<"This one-room school was built in 1910",
                 "Children of all ages learned together in the same classroom",
                 "The school closed in 1965 when a larger school was built in town">>] >>

\* base_narratives of _get_fantasy_narrative
fantasy_base_narratives == <<
    [title |-> "The Dragon's Bridge", waypoint_id |-> "wp1",
     images |-> <<"dragon_bridge.jpg">>,
     facts |-> <<"Dragons love to eat berries", "This dragon can change colors with her mood",
                 "She's been guarding the bridge for 300 years">>],
    [title |-> "The Wizard's Cabin", waypoint_id |-> "wp2",
     images |-> <<"wizard_cabin.jpg">>,
     facts |-> <<"The wizard can talk to animals",
                 "His favorite spell makes flowers grow instantly",
                 "He has a friendly owl named Hootie">>],
    [title |-> "The Fairy Meadow", waypoint_id |-> "wp3",
     images |-> <<"fairy_meadow.jpg">>,
     facts |-> <<"Fairies love the color blue", "They use dewdrops as tiny mirrors",
                 "They make their houses inside flower buds">>],
    [title |-> "The Talking Tree", waypoint_id |-> "wp4",
     images |-> <<"talking_tree.jpg">>,
     facts |-> <<"The tree knows stories from hundreds of years ago",
                 "It grows magical acorns once a year",
                 "The tree can move its branches to point to hidden treasures">>] >>

\* the three story texts written for a title, one per branch of
\* if age_group == "younger" / elif age_group == "middle" / else; a text is
\* named by its title and its branch
story_of(title, age_group) ==
    IF age_group = "younger" THEN <<title, "younger">>
    ELSE IF age_group = "middle" THEN <<title, "middle">>
    ELSE <<title, "older">>

\* the loop over base_narratives: narrative["story"] is set when the title is
\* one of those the if/elif chain names, then the narrative is appended
narratives_of(base_narratives, titles, age_group) ==
    [i \in 1..Len(base_narratives) |->
        IF base_narratives[i].title \in Range(titles)
        THEN [story |-> story_of(base_narratives[i].title, age_group)] @@ base_narratives[i]
        ELSE base_narratives[i]]

get_historical_narrative(route_id, age_group) ==
    narratives_of(historical_base_narratives, historical_titles, age_group)
get_fantasy_narrative(route_id, age_group) ==
    narratives_of(fantasy_base_narratives, fantasy_titles, age_group)

\* history_append mutated: the user's list is replaced by the new entry
history_append_replacing(history, user, entry) == [history EXCEPT ![user] = <<entry>>]

\* self._narrative_history[sample_user_id].append(entry)
history_append(history, user, entry) == [history EXCEPT ![user] = Append(@, entry)]

\* _generate_narrative_impl on the generator in state s and the instance's
\* history: the outcome res, the generator state s and the history left
generate_narrative(s, history, route_id, mode, child_age, language) ==
    LET age_group == age_group_of(child_age)
        narratives == IF mode = "history" THEN get_historical_narrative(route_id, age_group)
                      ELSE get_fantasy_narrative(route_id, age_group)
        sample_user_id == RandInt(s, 1, 10)
        entry == [route_id |-> route_id, mode |-> mode,
                  timestamp |-> "2025-09-04T14:30:00Z",
                  preview |-> IF Len(narratives) > 0 THEN narratives[1].title
                              ELSE "Unknown narrative"]
    IN  [res |-> Ok("generate_narrative", <<route_id, mode, child_age, language>>, narratives),
         s |-> sample_user_id.s,
         history |-> history_append(history, sample_user_id.v, entry)]

\* _preview_narratives_impl
preview_narratives(route_id, mode) ==
    LET age_group == "middle"
        narratives == IF mode = "history" THEN get_historical_narrative(route_id, age_group)
                      ELSE get_fantasy_narrative(route_id, age_group)
    IN  Ok("preview_narratives", <<route_id, mode>>,
           [route_id |-> route_id, mode |-> mode, narratives |-> narratives,
            parental_guidance |-> [age_appropriate |-> TRUE,
                                   educational_content |-> <<"Local history", "Geography", "Nature">>,
                                   sensitive_content |-> <<>>,
                                   estimated_duration |-> "30 minutes"]])

\* the list _get_narrative_history_impl returns:
\* history[-limit:] if len(history) > limit else history, for limit >= 0
narrative_history_of(history, user_id, limit) ==
    LET h == history[user_id]
    IN  IF Len(h) > limit
        THEN (IF limit = 0 THEN h ELSE SubSeq(h, Len(h) - limit + 1, Len(h)))
        ELSE h

get_narrative_history(history, user_id, limit) ==
    Ok("get_narrative_history", <<user_id, limit>>, narrative_history_of(history, user_id, limit))

--------------------------------------------------------------------------
(* Initial state: the modules are imported, nothing is registered, no      *)
(* provider is constructed; `random` seeded itself from the OS.            *)

Threads == {1, 2}
Users == 0..11          \* user_0 .. user_11; generate_narrative picks user_1 .. user_10

NoCall == [op |-> "", args |-> <<>>]

Init ==
    /\ registry = [d \in Domains |-> None]
    /\ created = [d \in Domains |-> 0]
    /\ rng \in RngStates
    /\ narrative_history = [i \in Instances |-> [u \in Users |-> <<>>]]
    /\ result = NoResult
    /\ passed = [d \in Domains |-> None]
    /\ first = NoResult
    /\ disturbed = FALSE
    /\ pc = [t \in Threads |-> "idle"]
    /\ call = [t \in Threads |-> NoCall]
    /\ out = [t \in Threads |-> NoResult]

\* no action of SpecRegistry reads or writes rng
InitQuiet == Init /\ rng = 0

--------------------------------------------------------------------------
(* Registration and resolution *)

\* register_providers(): one new mock instance per domain, registered in order
register_providers(reg, cr) ==
    LET r1 == register_provider(reg, "routes", cr["routes"] + 1)
        r2 == register_provider(r1, "narratives", cr["narratives"] + 1)
        r3 == register_provider(r2, "ar_encounters", cr["ar_encounters"] + 1)
        r4 == register_provider(r3, "safety", cr["safety"] + 1)
    IN  register_provider(r4, "users", cr["users"] + 1)

\* ProviderFactory.register_<d>_provider(p), p a new or an existing instance
RegisterProvider(d, p) ==
    /\ p \in 1..Min(created[d] + 1, MaxGen)
    /\ created' = [created EXCEPT ![d] = Max(@, p)]
    /\ registry' = register_provider(registry, d, p)
    /\ passed' = [passed EXCEPT ![d] = p]
    /\ result' = Ok("register", <<d, p>>, NoValue)
    /\ UNCHANGED <<rng, narrative_history, first, disturbed, pc, call, out>>

\* provider_setup.register_providers()
RegisterProviders ==
    /\ \A d \in Domains : created[d] < MaxGen
    /\ created' = [d \in Domains |-> created[d] + 1]
    /\ registry' = register_providers(registry, created)
    /\ passed' = [d \in Domains |-> created[d] + 1]
    /\ result' = Ok("register_providers", <<>>, NoValue)
    /\ UNCHANGED <<rng, narrative_history, first, disturbed, pc, call, out>>

\* ProviderFactory.get_<d>_provider()
GetDomainProvider(d) ==
    /\ result' = get_domain_provider(registry, d)
    /\ UNCHANGED <<registry, created, rng, narrative_history, passed, first, disturbed, pc, call, out>>

\* ProviderFactory.get_provider(t)
GetProvider(t) ==
    /\ result' = get_provider(registry, t)
    /\ UNCHANGED <<registry, created, rng, narrative_history, passed, first, disturbed, pc, call, out>>

NextRegistry ==
    \/ \E d \in Domains, p \in Instances : RegisterProvider(d, p)
    \/ RegisterProviders
    \/ \E d \in Domains : GetDomainProvider(d)
    \/ \E t \in ProviderTypes : GetProvider(t)

SpecRegistry == InitQuiet /\ [][NextRegistry]_vars

--------------------------------------------------------------------------
(* Content checks.  The provider is stateless, so one request per          *)
(* behaviour is checked: the state after startup with a request pending.   *)

\* the state register_providers() leaves behind on a fresh process
Started ==
    /\ registry = register_providers([d \in Domains |-> None], [d \in Domains |-> 0])
    /\ created = [d \in Domains |-> 1]
    /\ passed = [d \in Domains |-> 1]
    /\ narrative_history = [i \in Instances |-> [u \in Users |-> <<>>]]
    /\ result = Ok("register_providers", <<>>, NoValue)
    /\ first = NoResult
    /\ disturbed = FALSE
    /\ out = [t \in Threads |-> NoResult]

InitSafety ==
    /\ Started
    /\ rng = 0
    /\ \E content \in Texts, child_age \in Ages :
          call = [t \in Threads |-> IF t = 1
                                    THEN [op |-> "check_content", args |-> <<content, child_age>>]
                                    ELSE NoCall]
    /\ pc = [t \in Threads |-> IF t = 1 THEN "pending" ELSE "idle"]

\* MockSafetyProvider.check_content_appropriateness serving the pending request
CheckContent(t) ==
    /\ pc[t] = "pending"
    /\ call[t].op = "check_content"
    /\ created["safety"] >= 1
    /\ result' = check_content_appropriateness(call[t].args[1], call[t].args[2])
    /\ pc' = [pc EXCEPT ![t] = "idle"]
    /\ UNCHANGED <<registry, created, rng, narrative_history, passed, first, disturbed, call, out>>

NextSafety == \E t \in Threads : CheckContent(t)

SpecSafety == InitSafety /\ [][NextSafety]_vars

--------------------------------------------------------------------------
(* The generators, each call running to completion: the provider           *)
(* coroutines contain no await between random.seed and their last draw.    *)
(* `first` remembers the outcome of one earlier seeded call, `disturbed`    *)
(* that a different call has returned since.                               *)

Modes == {"history", "fantasy"}
ARCalls == { <<trail_1, "history", 6, MaxCount>>, <<trail_1, "fantasy", 6, MaxCount>>,
             <<trail_1, "history", 13, MaxCount>>, <<trail_12, "history", 13, MaxCount>>,
             <<trail_12, "fantasy", 10, 1>>, <<trail_1, "history", 10, 0 - 1>> }
FamilyIds == {family_1, family_12, family_21, family_x}
Activities == { [badges_earned |-> <<"Trail Pioneer">>], [duration |-> 60] }
Families == { [id |-> family_12], [name |-> "Smith"] }
SeededOps == {"generate_ar_encounters", "get_family", "get_family_progress"}

InitGenerators ==
    /\ Started
    /\ rng \in RngStates
    /\ pc = [t \in Threads |-> "idle"]
    /\ call = [t \in Threads |-> NoCall]

\* a call returns r: the outcome is handed back, the generator keeps r.s;
\* the outcome of a seeded call may be remembered, once
Returns(r, remember) ==
    /\ result' = r.res
    /\ rng' = r.s
    /\ first' = IF remember /\ first.kind = "none" /\ r.res.op \in SeededOps THEN r.res ELSE first
    /\ disturbed' = (first.kind # "none" /\ (disturbed \/ r.res.op # first.op \/ r.res.args # first.args))
    /\ UNCHANGED <<registry, created, narrative_history, passed, pc, call, out>>

GenerateAREncounters(c, remember) ==
    /\ registry["ar_encounters"] # None
    /\ Returns(generate_ar_encounters(rng, c[1], c[2], c[3], c[4]), remember)

GetFamily(family_id, remember) ==
    /\ registry["users"] # None
    /\ Returns(get_family(rng, family_id), remember)

GetFamilyProgress(family_id, remember) ==
    /\ registry["users"] # None
    /\ Returns(get_family_progress(rng, family_id), remember)

CompleteRoute(family_id, route_id, activity) ==
    /\ registry["users"] # None
    /\ Returns(complete_route(rng, family_id, route_id, activity), FALSE)

RegisterFamily(family) ==
    /\ registry["users"] # None
    /\ Returns(register_family(rng, family), FALSE)

NextGenerators ==
    \/ \E c \in ARCalls, remember \in BOOLEAN : GenerateAREncounters(c, remember)
    \/ \E family_id \in FamilyIds, remember \in BOOLEAN : GetFamily(family_id, remember)
    \/ \E family_id \in FamilyIds, remember \in BOOLEAN : GetFamilyProgress(family_id, remember)
    \/ \E activity \in Activities : CompleteRoute(family_12, trail_1, activity)
    \/ \E family \in Families : RegisterFamily(family)

SpecGenerators == InitGenerators /\ [][NextGenerators]_vars

--------------------------------------------------------------------------
(* Encounter generation alone, over every requested count from -1 to past  *)
(* the size of a bank and over the ages around the two band limits.        *)

EncounterRoutes == {trail_1, trail_12}
EncounterAges == {6, 7, 8, 11, 12, 13}
EncounterCounts == (0 - 1)..MaxRequest

NextEncounters ==
    \E route_id \in EncounterRoutes, narrative_mode \in Modes,
       child_age \in EncounterAges, count \in EncounterCounts :
        GenerateAREncounters(<<route_id, narrative_mode, child_age, count>>, FALSE)

SpecEncounters == InitGenerators /\ [][NextEncounters]_vars

--------------------------------------------------------------------------
(* Family progress alone, for the ids family_<n> and user_<n> of every      *)
(* number n up to MaxFamily, which seed the generator into every state,    *)
(* and for an id that is not of that form.                                 *)

\* str(n) for n >= 0
RECURSIVE DecimalOf(_)
DecimalOf(n) == IF n < 10 THEN <<Digits[n + 1]>>
                ELSE DecimalOf(n \div 10) \o <<Digits[(n % 10) + 1]>>

ProgressIds == {s_family_ \o DecimalOf(n) : n \in 0..MaxFamily}
                   \cup {s_user_ \o DecimalOf(n) : n \in 0..MaxFamily}
                   \cup {family_x}

NextProgress == \E family_id \in ProgressIds : GetFamilyProgress(family_id, FALSE)

SpecProgress == InitGenerators /\ [][NextProgress]_vars

--------------------------------------------------------------------------
(* Two callers on two threads, each inside one seeded generator call.  A   *)
(* call is two steps on the generator shared by the process: random.seed,  *)
(* then its draws.  Nothing in the providers orders the steps of one call  *)
(* against those of the other.                                             *)

ConcurrentCalls ==
    { [op |-> "generate_ar_encounters", args |-> <<trail_1, "history", 13, MaxCount>>],
      [op |-> "generate_ar_encounters", args |-> <<trail_1, "fantasy", 13, MaxCount>>],
      [op |-> "generate_ar_encounters", args |-> <<trail_12, "fantasy", 10, 1>>],
      [op |-> "get_family", args |-> <<family_12>>],
      [op |-> "get_family", args |-> <<family_21>>],
      [op |-> "get_family", args |-> <<family_x>>],
      [op |-> "get_family_progress", args |-> <<family_12>>] }

\* the statements of a call up to random.seed: the seed, or the exception
SeedOf(c) ==
    IF c.op = "generate_ar_encounters"
    THEN [ok |-> TRUE, seed |-> ar_seed(c.args[1])]
    ELSE IF IntParses(family_seed_text(c.args[1]))
         THEN [ok |-> TRUE, seed |-> IntValue(family_seed_text(c.args[1]), 0)]
         ELSE [ok |-> FALSE, seed |-> 0]

\* the statements of a call after random.seed, run on the generator in state s
DrawsOf(s, c) ==
    CASE c.op = "generate_ar_encounters" -> ar_draws(s, c.args[1], c.args[2], c.args[3], c.args[4])
      [] c.op = "get_family" -> family_draws(s, c.args[1])
      [] c.op = "get_family_progress" -> progress_draws(s, c.args[1])

\* the same call with no other caller in the process
Alone(s, c) ==
    CASE c.op = "generate_ar_encounters" -> generate_ar_encounters(s, c.args[1], c.args[2], c.args[3], c.args[4])
      [] c.op = "get_family" -> get_family(s, c.args[1])
      [] c.op = "get_family_progress" -> get_family_progress(s, c.args[1])

InitConcurrent ==
    /\ Started
    /\ rng \in RngStates
    /\ call \in [Threads -> ConcurrentCalls]
    /\ pc = [t \in Threads |-> "seed"]

\* thread t computes its seed and calls random.seed(seed)
SeedStep(t) ==
    /\ pc[t] = "seed"
    /\ LET sd == SeedOf(call[t])
       IN  IF sd.ok
           THEN /\ rng' = SeedState(sd.seed)
                /\ pc' = [pc EXCEPT ![t] = "draw"]
                /\ UNCHANGED <<out, result>>
           ELSE /\ out' = [out EXCEPT ![t] = Raise(call[t].op, call[t].args, "ValueError")]
                /\ result' = Raise(call[t].op, call[t].args, "ValueError")
                /\ pc' = [pc EXCEPT ![t] = "done"]
                /\ UNCHANGED rng
    /\ UNCHANGED <<registry, created, narrative_history, passed, first, disturbed, call>>

\* thread t makes its draws and returns
DrawStep(t) ==
    /\ pc[t] = "draw"
    /\ LET r == DrawsOf(rng, call[t])
       IN  /\ out' = [out EXCEPT ![t] = r.res]
           /\ result' = r.res
           /\ rng' = r.s
    /\ pc' = [pc EXCEPT ![t] = "done"]
    /\ UNCHANGED <<registry, created, narrative_history, passed, first, disturbed, call>>

NextConcurrent == \E t \in Threads : SeedStep(t) \/ DrawStep(t)

SpecConcurrent == InitConcurrent /\ [][NextConcurrent]_vars

--------------------------------------------------------------------------
(* Narrative operations on the registered provider instance *)

NarrativeAges == {7, 8, 11, 12}
Limits == 0..MaxLimit

\* number of entries held by a history, over all users
RECURSIVE EntriesUpTo(_, _)
EntriesUpTo(history, u) ==
    IF u < 0 THEN 0 ELSE Len(history[u]) + EntriesUpTo(history, u - 1)
Entries(history) == EntriesUpTo(history, 11)

InitNarratives ==
    /\ Started
    /\ rng \in RngStates
    /\ pc = [t \in Threads |-> "idle"]
    /\ call = [t \in Threads |-> NoCall]

GenerateNarrative(route_id, mode, child_age) ==
    /\ registry["narratives"] # None
    /\ Entries(narrative_history[registry["narratives"]]) < MaxHist
    /\ LET r == generate_narrative(rng, narrative_history[registry["narratives"]],
                                   route_id, mode, child_age, "en")
       IN  /\ result' = r.res
           /\ rng' = r.s
           /\ narrative_history' = [narrative_history EXCEPT ![registry["narratives"]] = r.history]
    /\ UNCHANGED <<registry, created, passed, first, disturbed, pc, call, out>>

PreviewNarratives(route_id, mode) ==
    /\ registry["narratives"] # None
    /\ result' = preview_narratives(route_id, mode)
    /\ UNCHANGED <<registry, created, rng, narrative_history, passed, first, disturbed, pc, call, out>>

GetNarrativeHistory(user_id, limit) ==
    /\ registry["narratives"] # None
    /\ result' = get_narrative_history(narrative_history[registry["narratives"]], user_id, limit)
    /\ UNCHANGED <<registry, created, rng, narrative_history, passed, first, disturbed, pc, call, out>>

NextNarratives ==
    \/ \E mode \in Modes, child_age \in NarrativeAges : GenerateNarrative(trail_1, mode, child_age)
    \/ \E mode \in Modes : PreviewNarratives(trail_1, mode)
    \/ \E user_id \in Users, limit \in Limits : GetNarrativeHistory(user_id, limit)

SpecNarratives == InitNarratives /\ [][NextNarratives]_vars

--------------------------------------------------------------------------
(* Narrative operations between calls of a seeded generator: the encounter *)
(* generator seeds the process-wide state from which generate_narrative    *)
(* then draws its user, so the same user is drawn again.                   *)

HistoryAges == {7, 12}
HistoryUsers == {1, 10, 11}
HistoryCalls == { <<trail_1, "fantasy", 13, 1>>, <<trail_12, "fantasy", 10, 1>> }

NextHistory ==
    \/ \E c \in HistoryCalls : GenerateAREncounters(c, FALSE)
    \/ \E mode \in Modes, child_age \in HistoryAges : GenerateNarrative(trail_1, mode, child_age)
    \/ \E mode \in Modes : PreviewNarratives(trail_1, mode)
    \/ \E user_id \in HistoryUsers, limit \in {0, MaxLimit} : GetNarrativeHistory(user_id, limit)

SpecHistory == InitNarratives /\ [][NextHistory]_vars

--------------------------------------------------------------------------
(* BaseProvider.execute_safely and the mock providers that call it.  The   *)
(* method is defined by BaseProvider; NarrativesProvider and UsersProvider *)
(* derive from BaseProvider, the other three interfaces derive from ABC.   *)

\* the domains whose mock class inherits the attributes of BaseProvider
BaseProviderDomains == {"narratives", "users"}

\* execute_safely(method, ...): the method's result, or its exception wrapped
\* by _handle_provider_error in a ProviderError
execute_safely(r) ==
    IF r.kind = "raise" THEN Raise(r.op, r.args, "ProviderError") ELSE r

\* await self.execute_safely(method, ...) in the mock class of domain d: the
\* attribute is looked up before method is called
self_execute_safely(d, op, args, r) ==
    IF d \in BaseProviderDomains THEN execute_safely(r)
    ELSE Raise(op, args, "AttributeError")

\* the ten points of _generate_route_impl as offsets from the start, in
\* thousandths of a degree
route_offsets == << <<0, 0>>, <<5, 5>>, <<10, 10>>, <<15, 15>>, <<20, 20>>,
                    <<25, 20>>, <<30, 15>>, <<25, 10>>, <<20, 5>>, <<10, 30>> >>

\* MockRoutesProvider._generate_route_impl: coordinates in thousandths of a
\* degree, distance in tenths of a kilometre, elevation_gain in tenths of a metre
generate_route_impl(start_lat, start_lng, distance, difficulty, with_children) ==
    Ok("generate_route", <<start_lat, start_lng, distance, difficulty, with_children>>,
       [id |-> "route_12345",
        name |-> << IF with_children THEN "Family-friendly " ELSE "",
                    IF difficulty = "easy" THEN "Easy"
                    ELSE IF difficulty = "moderate" THEN "Moderate" ELSE "Challenging",
                    " Adventure Trail" >>,
        distance |-> distance,
        elevation_gain |-> IF difficulty = "easy" THEN 1205
                           ELSE IF difficulty = "moderate" THEN 2508 ELSE 4502,
        estimated_time |-> (distance * (IF difficulty = "easy" THEN 20
                                        ELSE IF difficulty = "moderate" THEN 25 ELSE 35)) \div 10,
        difficulty |-> difficulty,
        points |-> [i \in 1..Len(route_offsets) |->
                       [lat |-> start_lat + route_offsets[i][1],
                        lng |-> start_lng + route_offsets[i][2]]],
        suitable_for |-> [beginners |-> difficulty = "easy",
                          children |-> with_children \/ difficulty = "easy",
                          elderly |-> difficulty = "easy",
                          pets |-> IF difficulty = "easy" THEN TRUE ELSE difficulty = "moderate",
                          wheelchairs |-> FALSE]])

\* MockRoutesProvider.generate_route
generate_route(start_lat, start_lng, distance, difficulty, with_children) ==
    self_execute_safely("routes", "generate_route",
                        <<start_lat, start_lng, distance, difficulty, with_children>>,
                        generate_route_impl(start_lat, start_lng, distance, difficulty, with_children))

\* MockSafetyProvider._get_parental_controls_impl
get_parental_controls_impl(family_id) ==
    Ok("get_parental_controls", <<family_id>>,
       [narrative_mode |-> <<"history", "fantasy">>, content_filter |-> "mild",
        max_difficulty |-> "moderate", allow_social_features |-> TRUE,
        preview_required |-> TRUE, screen_time_limit |-> 60])

\* MockSafetyProvider.get_parental_controls
get_parental_controls(family_id) ==
    self_execute_safely("safety", "get_parental_controls", <<family_id>>,
                        get_parental_controls_impl(family_id))

w_moderate == <<"m","o","d","e","r","a","t","e">>
w_hard == <<"h","a","r","d">>
w_challenging == <<"c","h","a","l","l","e","n","g","i","n","g">>
w_family == <<"f","a","m","i","l","y">>
w_accessible == <<"a","c","c","e","s","s","i","b","l","e">>

\* MockRoutesProvider.get_route: coordinates in thousandths of a degree,
\* distance in tenths of a kilometre, elevation_gain in tenths of a metre
get_route(route_id) ==
    LET difficulty == IF Contains(route_id, w_moderate) THEN "moderate"
                      ELSE IF Contains(route_id, w_hard) THEN "hard"
                      ELSE "easy"
        with_children == Contains(route_id, w_family)
        base_lat == 47606
        base_lng == 0 - 122332
    IN  Ok("get_route", <<route_id>>,
           [id |-> route_id,
            name |-> << IF with_children THEN "Family-friendly " ELSE "",
                        IF difficulty = "easy" THEN "Easy"
                        ELSE IF difficulty = "moderate" THEN "Moderate" ELSE "Challenging",
                        " Adventure Trail" >>,
            distance |-> IF difficulty = "easy" THEN 30
                         ELSE IF difficulty = "moderate" THEN 50 ELSE 80,
            elevation_gain |-> IF difficulty = "easy" THEN 1205
                               ELSE IF difficulty = "moderate" THEN 2508 ELSE 4502,
            estimated_time |-> IF difficulty = "easy" THEN 60
                               ELSE IF difficulty = "moderate" THEN 120 ELSE 240,
            difficulty |-> difficulty,
            points |-> [i \in 1..Len(route_offsets) |->
                           [lat |-> base_lat + route_offsets[i][1],
                            lng |-> base_lng + route_offsets[i][2]]],
            suitable_for |-> [beginners |-> difficulty = "easy",
                              children |-> with_children \/ difficulty = "easy",
                              elderly |-> difficulty = "easy",
                              pets |-> IF difficulty = "easy" THEN TRUE ELSE difficulty = "moderate",
                              wheelchairs |-> FALSE]])

\* MockSafetyProvider.get_route_safety_info: nearest_help in tenths of a
\* kilometre, the lists hazards and recommendations by their number of items
get_route_safety_info(route_id) ==
    LET difficulty == IF Contains(route_id, w_moderate) THEN "moderate"
                      ELSE IF Contains(route_id, w_hard) \/ Contains(route_id, w_challenging)
                           THEN "hard"
                           ELSE "easy"
    IN  Ok("get_route_safety_info", <<route_id>>,
           [difficulty_rating |-> difficulty,
            emergency_info |->
                [nearest_help |-> IF difficulty = "easy" THEN 15
                                  ELSE IF difficulty = "moderate" THEN 30 ELSE 50,
                 cell_coverage |-> IF difficulty = "easy" THEN "Good throughout trail"
                                   ELSE IF difficulty = "moderate"
                                        THEN "Available at higher elevations"
                                        ELSE "Very limited"],
            trail_conditions |->
                [condition |-> IF difficulty = "easy" THEN "Excellent"
                               ELSE IF difficulty = "moderate" THEN "Good" ELSE "Fair",
                 hazards |-> IF difficulty = "easy" THEN 1
                             ELSE IF difficulty = "moderate" THEN 3 ELSE 4],
            family_friendliness |->
                [suitable_for_children |-> \/ difficulty = "easy"
                                           \/ (difficulty = "moderate" /\ Contains(route_id, w_family)),
                 stroller_accessible |-> difficulty = "easy" /\ Contains(route_id, w_accessible),
                 restroom_facilities |-> difficulty = "easy",
                 water_fountains |-> difficulty = "easy"],
            recommendations |-> IF difficulty = "easy" THEN 4
                                ELSE IF difficulty = "moderate" THEN 6 ELSE 9])

--------------------------------------------------------------------------
(* The request handlers of routes/routes.py, routes/narratives.py,         *)
(* routes/ar_encounters.py and routes/safety.py.  An outcome of a handler  *)
(* carries the handler's name as op.                                       *)

\* the methods of MockAREncountersProvider
ar_encounters_methods == {"generate_ar_encounters", "get_encounter_details",
                          "_get_historical_encounters", "_get_fantasy_encounters"}

\* routes.generate_route mutated: the difficulty is not validated
routes_generate_route_any_difficulty(reg, start_lat, start_lng, distance, difficulty, with_children) ==
    LET op == "routes.generate_route"
        args == <<start_lat, start_lng, distance, difficulty, with_children>>
    IN  IF get_domain_provider(reg, "routes").kind = "raise"
        THEN Raise(op, args, "HTTPException")
        ELSE IF distance <= 0
        THEN Raise(op, args, "ValidationError")
        ELSE LET route_data == generate_route(start_lat, start_lng, distance, difficulty, with_children)
             IN  IF route_data.kind = "raise"
                 THEN Raise(op, args, IF route_data.exc \in {"ValidationError", "ProviderError"}
                                      THEN route_data.exc ELSE "HTTPException")
                 ELSE Ok(op, args, route_data.payload)

\* routes.generate_route: the provider is fetched, then distance and
\* difficulty are validated, then the provider is called; ValidationError and
\* ProviderError pass, any other exception becomes HTTPException(500)
routes_generate_route(reg, start_lat, start_lng, distance, difficulty, with_children) ==
    LET op == "routes.generate_route"
        args == <<start_lat, start_lng, distance, difficulty, with_children>>
    IN  IF get_domain_provider(reg, "routes").kind = "raise"
        THEN Raise(op, args, "HTTPException")
        ELSE IF distance <= 0
        THEN Raise(op, args, "ValidationError")
        ELSE IF difficulty \notin {"easy", "moderate", "hard"}
        THEN Raise(op, args, "ValidationError")
        ELSE LET route_data == generate_route(start_lat, start_lng, distance, difficulty, with_children)
             IN  IF route_data.kind = "raise"
                 THEN Raise(op, args, IF route_data.exc \in {"ValidationError", "ProviderError"}
                                      THEN route_data.exc ELSE "HTTPException")
                 ELSE Ok(op, args, route_data.payload)

\* narratives.generate_narrative: child_age is validated before the provider
\* is fetched; the outcome res, the generator state s and the history left
narratives_generate_narrative(reg, s, history, route_id, mode, child_age, language) ==
    LET op == "narratives.generate_narrative"
        args == <<route_id, mode, child_age, language>>
        unchanged == [s |-> s, history |-> history]
    IN  IF child_age <= 0 \/ child_age > 18
        THEN [res |-> Raise(op, args, "ValidationError")] @@ unchanged
        ELSE IF get_domain_provider(reg, "narratives").kind = "raise"
        THEN [res |-> Raise(op, args, "HTTPException")] @@ unchanged
        ELSE LET r == generate_narrative(s, history[reg["narratives"]], route_id, mode, child_age, language)
                 narratives == self_execute_safely("narratives", "generate_narrative", args, r.res)
             IN  [res |-> [narratives EXCEPT !.op = op],
                  s |-> r.s,
                  history |-> [history EXCEPT ![reg["narratives"]] = r.history]]

\* ar_encounters.generate_ar_encounters: the provider is fetched and its
\* attribute generate_encounters is called; nothing is validated or caught
ar_encounters_generate_ar_encounters(reg, s, route_id, narrative_mode, child_age, count) ==
    LET op == "ar_encounters.generate_ar_encounters"
        args == <<route_id, narrative_mode, child_age, count>>
    IN  IF get_domain_provider(reg, "ar_encounters").kind = "raise"
        THEN [res |-> Raise(op, args, "ConfigurationError"), s |-> s]
        ELSE IF "generate_encounters" \notin ar_encounters_methods
        THEN [res |-> Raise(op, args, "AttributeError"), s |-> s]
        ELSE LET r == generate_ar_encounters(s, route_id, narrative_mode, child_age, count)
             IN  [res |-> [r.res EXCEPT !.op = op], s |-> r.s]

\* safety.check_content_appropriateness: the provider is fetched and called;
\* nothing is validated or caught
safety_check_content_appropriateness(reg, content, child_age) ==
    LET op == "safety.check_content_appropriateness"
    IN  IF get_domain_provider(reg, "safety").kind = "raise"
        THEN Raise(op, <<content, child_age>>, "ConfigurationError")
        ELSE [check_content_appropriateness(content, child_age) EXCEPT !.op = op]

MaxNarrated == 1        \* narrative requests served per provider instance
StartPoints == { <<47606, 0 - 122332>>, <<0, 0>> }
Distances == {0, 30}
Difficulties == {"easy", "moderate", "hard", "extreme"}
RequestAges == {0, 1, 18, 19}
RequestTexts == {w_blood, w_learn}
RouteIds == { trail_1, w_moderate, w_hard, w_challenging, w_family \o w_moderate,
             w_moderate \o w_hard, w_hard \o w_challenging, w_challenging \o w_moderate }

InitRequests ==
    /\ Started
    /\ rng \in RngStates
    /\ pc = [t \in Threads |-> "idle"]
    /\ call = [t \in Threads |-> NoCall]

\* a handler or a provider method that touches no state returns r
Answers(r) ==
    /\ result' = r
    /\ UNCHANGED <<registry, created, rng, narrative_history, passed, first, disturbed, pc, call, out>>

\* MockRoutesProvider.generate_route called on the registered provider
ProviderGenerateRoute(start, distance, difficulty, with_children) ==
    /\ registry["routes"] # None
    /\ Answers(generate_route(start[1], start[2], distance, difficulty, with_children))

\* MockSafetyProvider.get_parental_controls called on the registered provider
ProviderGetParentalControls(family_id) ==
    /\ registry["safety"] # None
    /\ Answers(get_parental_controls(family_id))

\* MockRoutesProvider.get_route called on the registered provider
ProviderGetRoute(route_id) ==
    /\ registry["routes"] # None
    /\ Answers(get_route(route_id))

\* MockSafetyProvider.get_route_safety_info called on the registered provider
ProviderGetRouteSafetyInfo(route_id) ==
    /\ registry["safety"] # None
    /\ Answers(get_route_safety_info(route_id))

\* GET /routes/generate
RequestGenerateRoute(start, distance, difficulty, with_children) ==
    Answers(routes_generate_route(registry, start[1], start[2], distance, difficulty, with_children))

\* GET /narratives/generate/{route_id}
RequestGenerateNarrative(route_id, mode, child_age) ==
    /\ registry["narratives"] # None =>
           Entries(narrative_history[registry["narratives"]]) < MaxNarrated
    /\ LET r == narratives_generate_narrative(registry, rng, narrative_history,
                                              route_id, mode, child_age, "en")
       IN  /\ result' = r.res
           /\ rng' = r.s
           /\ narrative_history' = r.history
    /\ UNCHANGED <<registry, created, passed, first, disturbed, pc, call, out>>

\* GET /ar-encounters/generate/{route_id}
RequestGenerateAREncounters(route_id, narrative_mode, child_age, count) ==
    /\ LET r == ar_encounters_generate_ar_encounters(registry, rng, route_id,
                                                     narrative_mode, child_age, count)
       IN  /\ result' = r.res
           /\ rng' = r.s
    /\ UNCHANGED <<registry, created, narrative_history, passed, first, disturbed, pc, call, out>>

\* GET /safety/content-check
RequestCheckContent(content, child_age) ==
    Answers(safety_check_content_appropriateness(registry, content, child_age))

NextRequests ==
    \/ \E start \in StartPoints, distance \in {d \in Distances : d > 0},
          difficulty \in Difficulties \ {"extreme"}, with_children \in BOOLEAN :
              ProviderGenerateRoute(start, distance, difficulty, with_children)
    \/ ProviderGetParentalControls(family_12)
    \/ \E route_id \in RouteIds : ProviderGetRoute(route_id)
    \/ \E route_id \in RouteIds : ProviderGetRouteSafetyInfo(route_id)
    \/ \E distance \in Distances, difficulty \in Difficulties, with_children \in BOOLEAN :
              RequestGenerateRoute(<<47606, 0 - 122332>>, distance, difficulty, with_children)
    \/ \E mode \in Modes, child_age \in RequestAges :
              RequestGenerateNarrative(trail_1, mode, child_age)
    \/ \E narrative_mode \in Modes, child_age \in RequestAges :
              RequestGenerateAREncounters(trail_1, narrative_mode, child_age, MaxCount)
    \/ \E content \in RequestTexts, child_age \in RequestAges :
              RequestCheckContent(content, child_age)

SpecRequests == InitRequests /\ [][NextRequests]_vars

--------------------------------------------------------------------------
(* Requests around startup: the handlers are importable, and callable,     *)
(* before startup_event has run register_providers().                      *)

NextStartup ==
    \/ RegisterProviders
    \/ \E distance \in Distances, difficulty \in Difficulties, with_children \in BOOLEAN :
              RequestGenerateRoute(<<47606, 0 - 122332>>, distance, difficulty, with_children)
    \/ \E mode \in Modes, child_age \in RequestAges :
              RequestGenerateNarrative(trail_1, mode, child_age)
    \/ \E narrative_mode \in Modes, child_age \in RequestAges :
              RequestGenerateAREncounters(trail_1, narrative_mode, child_age, MaxCount)
    \/ \E content \in RequestTexts, child_age \in RequestAges :
              RequestCheckContent(content, child_age)

SpecStartup == Init /\ [][NextStartup]_vars

--------------------------------------------------------------------------
(* Encounter details: the provider's get_encounter_details and the GET     *)
(* /{encounter_id} handler of routes/ar_encounters.py, which answers       *)
(* without the provider.  Ids are the text the f-string of                 *)
(* generate_ar_encounters builds.                                          *)

w_animal == <<"a", "n", "i", "m", "a", "l">>
w_treasure == <<"t", "r", "e", "a", "s", "u", "r", "e">>
w_character == <<"c", "h", "a", "r", "a", "c", "t", "e", "r">>
w_puzzle == <<"p", "u", "z", "z", "l", "e">>
w_landmark == <<"l", "a", "n", "d", "m", "a", "r", "k">>
w_enc_1 == <<"e", "n", "c", "_", "1">>

\* the characters of an encounter type
type_text(type) ==
    CASE type = "animal" -> w_animal
      [] type = "treasure" -> w_treasure
      [] type = "character" -> w_character
      [] type = "puzzle" -> w_puzzle
      [] type = "landmark" -> w_landmark

\* f"{encounter['type']}_{route_id[-5:]}_{i+1}" as text
encounter_id_text(id) == type_text(id[1]) \o <<"_">> \o id[2] \o <<"_">> \o DecimalOf(id[3])

\* s.split('_')[0]: the text before the first underscore, all of s without one
split_first(s) ==
    IF \E i \in 1..Len(s) : s[i] = "_"
    THEN SubSeq(s, 1, (CHOOSE i \in 1..Len(s) : s[i] = "_" /\ \A j \in 1..(i - 1) : s[j] # "_") - 1)
    ELSE s

\* MockAREncountersProvider.get_encounter_details(encounter_id)
get_encounter_details(encounter_id) ==
    LET encounter_type == split_first(encounter_id)
    IN  Ok("get_encounter_details", <<encounter_id>>,
           IF encounter_type = w_animal
           THEN [id |-> encounter_id, type |-> "animal", title |-> "Forest Fox"]
           ELSE IF encounter_type = w_treasure
           THEN [id |-> encounter_id, type |-> "treasure", title |-> "Hidden Treasure Chest"]
           ELSE IF encounter_type = w_character
           THEN [id |-> encounter_id, type |-> "character", title |-> "Forest Ranger"]
           ELSE IF encounter_type = w_puzzle
           THEN [id |-> encounter_id, type |-> "puzzle", title |-> "Forest Riddle"]
           ELSE [id |-> encounter_id, type |-> "landmark", title |-> "Ancient Oak Tree"])

\* the handler's own banks: the first three encounters of each provider bank
handler_fantasy_encounters == SubSeq(fantasy_encounters, 1, 3)
handler_history_encounters == SubSeq(historical_encounters, 1, 3)

\* ar_encounters.get_encounter_details(encounter_id): the encounter is drawn
\* from the process-wide generator, unseeded, and no provider is called;
\* animation, ar_placement_type and interaction_mechanics are positions in
\* the template's lists
ar_encounters_get_encounter_details(s, encounter_id) ==
    LET is_fantasy == ~MatchAt(encounter_id, w_enc_1, 1)
        base_encounters == IF is_fantasy THEN handler_fantasy_encounters
                           ELSE handler_history_encounters
    IN  Bind(Choice(s, base_encounters), LAMBDA base :
        Bind(Choice(base.s, <<1, 2, 3>>), LAMBDA animation :
        Bind(Sample(animation.s, <<1, 2, 3>>, 2), LAMBDA sound_effects :
        Bind(Draws(sound_effects.s, <<D_choice(<<"easy", "medium", "hard">>),
                                      D_choice(<<1, 2, 3>>), D_choice(<<1, 2, 3>>)>>), LAMBDA d :
            [res |-> Ok("ar_encounters.get_encounter_details", <<encounter_id>>,
                        [id |-> encounter_id,
                         type |-> base.v.type,
                         title |-> base.v.title,
                         animation |-> animation.v,
                         sound_effects |-> sound_effects.v,
                         difficulty |-> d.v[1],
                         ar_placement_type |-> d.v[2],
                         interaction_mechanics |-> d.v[3],
                         educational_content |-> ~is_fantasy,
                         fantasy_elements |-> is_fantasy]),
             s |-> d.s]))))

\* the ids of the encounters a generate_ar_encounters call returns
encounter_ids(r) == IF r.kind = "ok"
                    THEN {encounter_id_text(r.payload[i].id) : i \in 1..Len(r.payload)}
                    ELSE {}

DetailCalls == { <<trail_1, "history", 13, MaxCount>>, <<trail_1, "fantasy", 13, MaxCount>>,
                 <<trail_12, "fantasy", 7, MaxCount>>, <<trail_12, "history", 7, 1>> }
OtherIds == { w_enc_1, w_enc_1 \o <<"_">> \o w_animal, w_animal, w_puzzle \o <<"_">>,
              <<"_">> \o w_treasure, <<>>, <<"d", "r", "a", "g", "o", "n", "_", "7">> }

\* the ids a client can hold: those of the encounters last returned, and
\* any other text
KnownIds == OtherIds \cup (IF result.op = "generate_ar_encounters" THEN encounter_ids(result)
                           ELSE IF first.kind # "none" /\ first.op = "generate_ar_encounters"
                           THEN encounter_ids(first) ELSE {})

\* MockAREncountersProvider.get_encounter_details called on the registered provider
ProviderGetEncounterDetails(encounter_id) ==
    /\ registry["ar_encounters"] # None
    /\ Answers(get_encounter_details(encounter_id))

\* GET /{encounter_id}: the path parameter is never empty
RequestGetEncounterDetails(encounter_id) ==
    /\ encounter_id # <<>>
    /\ Returns(ar_encounters_get_encounter_details(rng, encounter_id), FALSE)

NextDetails ==
    \/ \E c \in DetailCalls : GenerateAREncounters(c, TRUE)
    \/ \E encounter_id \in KnownIds : ProviderGetEncounterDetails(encounter_id)
    \/ \E encounter_id \in KnownIds : RequestGetEncounterDetails(encounter_id)

SpecDetails == InitGenerators /\ [][NextDetails]_vars

--------------------------------------------------------------------------
(* Claims about the registry, checked under SpecRegistry *)

DomainOfType(t) == CHOOSE d \in Domains : InterfaceOf[d] = t
IsInterface(t) == \E d \in Domains : InterfaceOf[d] = t

\* C4: resolving a domain for which nothing is registered fails with
\* ConfigurationError and returns no instance, through get_<d>_provider and
\* through get_provider(type); get_provider also fails with ConfigurationError
\* for a type that is none of the five interfaces.
C4_UnregisteredRaises ==
    /\ (result.op = "get_provider" /\ registry[result.args[1]] = None)
          => (result.kind = "raise" /\ result.exc = "ConfigurationError"
              /\ result.payload = NoValue)
    /\ (result.op = "get_provider_generic"
        /\ (~IsInterface(result.args[1]) \/ registry[DomainOfType(result.args[1])] = None))
          => (result.kind = "raise" /\ result.exc = "ConfigurationError"
              /\ result.payload = NoValue)

\* a resolve of an unregistered domain while another domain is registered
C4_Witness ==
    /\ result.op = "get_provider"
    /\ registry[result.args[1]] = None
    /\ result.kind = "raise"
    /\ \E e \in Domains : registry[e] # None

\* C5: resolve(d) returns the instance most recently passed to register for d;
\* a register call for d leaves the entries of the other domains unchanged;
\* after register_providers() every domain resolves.
C5_ResolveLatest ==
    /\ (result.op = "get_provider" /\ passed[result.args[1]] # None)
          => (result.kind = "ok" /\ result.payload = passed[result.args[1]])
    /\ (result.op = "get_provider_generic" /\ IsInterface(result.args[1])
        /\ passed[DomainOfType(result.args[1])] # None)
          => (result.kind = "ok" /\ result.payload = passed[DomainOfType(result.args[1])])
    /\ result.op = "register_providers"
          => \A d \in Domains : get_domain_provider(registry, d).kind = "ok"

C5_RegisterFrame ==
    \A d \in Domains :
        (result' # result /\ result'.op = "register" /\ result'.args[1] = d)
            => \A e \in Domains \ {d} : registry'[e] = registry[e]

C5_Registry == []C5_ResolveLatest /\ [][C5_RegisterFrame]_vars

\* a resolve that returns a re-registered instance while the other domains
\* hold the instances of register_providers()
C5_Witness ==
    /\ result.op = "get_provider"
    /\ result.kind = "ok"
    /\ result.payload = 2
    /\ \E e \in Domains : registry[e] = 1 /\ created[e] = 1

\* C6: once an instance is registered for a domain, the entry is never reassigned.
C6_NeverReassigned ==
    [][\A d \in Domains : registry[d] # None => registry'[d] = registry[d]]_vars

--------------------------------------------------------------------------
(* Claims about the content classifier, checked under SpecSafety *)

HighTermsIn(content) == Range(MatchedTerms(inappropriate_words, content))
MildTermsIn(content) == Range(MatchedTerms(mild_concern_words, content))
Checked == result.op = "check_content"
CheckedText == result.args[1]
CheckedAge == result.args[2]

\* C7: a text with a high-concern term is rejected (appropriate = false) for
\* every age and whatever mild-concern terms it has, and flagged_terms holds
\* every high-concern term of the text.
C7_HighConcernRejected ==
    (Checked /\ HighTermsIn(CheckedText) # {})
        => /\ result.kind = "ok"
           /\ result.payload.appropriate = FALSE
           /\ result.payload.reason = "Contains potentially scary or inappropriate content"
           /\ HighTermsIn(CheckedText) \subseteq Range(result.payload.flagged_terms)

\* a rejected text with a high-concern and a mild-concern term, for an age of 9 or more
C7_Witness ==
    /\ Checked
    /\ HighTermsIn(CheckedText) # {}
    /\ MildTermsIn(CheckedText) # {}
    /\ CheckedAge >= 9
    /\ result.payload.appropriate = FALSE

\* C8: flagged_terms equals the set of all lexicon terms, of both tiers, that
\* occur in the lower-cased text.
C8_AllTermsListed ==
    (Checked /\ result.kind = "ok")
        => (IF "flagged_terms" \in DOMAIN result.payload
            THEN Range(result.payload.flagged_terms) ELSE {})
           = HighTermsIn(CheckedText) \cup MildTermsIn(CheckedText)

\* C9: a text with a mild-concern term and no high-concern term gets the
\* flagged verdict, appropriate exactly when child_age >= 9.
C9_MildFlaggedByAge ==
    (Checked /\ HighTermsIn(CheckedText) = {} /\ MildTermsIn(CheckedText) # {})
        => /\ result.kind = "ok"
           /\ result.payload.age_rating = <<"Suitable for ages 9+">>
           /\ result.payload.confidence = "medium"
           /\ Range(result.payload.flagged_terms) = MildTermsIn(CheckedText)
           /\ result.payload.appropriate = (CheckedAge >= 9)

\* a flagged text judged appropriate for a child of exactly 9
C9_Witness ==
    /\ Checked
    /\ HighTermsIn(CheckedText) = {}
    /\ MildTermsIn(CheckedText) # {}
    /\ CheckedAge = 9
    /\ result.payload.appropriate = TRUE

\* C10: check_content returns a verdict for every text and every integer age,
\* and a text without lexicon terms is appropriate with no flagged terms.
C10_NeverRaises ==
    Checked
        => /\ result.kind = "ok"
           /\ (HighTermsIn(CheckedText) = {} /\ MildTermsIn(CheckedText) = {})
                 => /\ result.payload.appropriate = TRUE
                    /\ "flagged_terms" \notin DOMAIN result.payload

\* the empty text checked for an age below the valid domain
C10_Witness ==
    /\ Checked
    /\ CheckedText = <<>>
    /\ CheckedAge < 1
    /\ result.kind = "ok"
    /\ result.payload.appropriate = TRUE

--------------------------------------------------------------------------
(* Claims about the seeded generators, checked under SpecGenerators *)

\* C1: a seeded generator (generate_ar_encounters, get_family,
\* get_family_progress) called with the arguments of an earlier call returns
\* the payload of that earlier call, whatever operations ran before or between
C1_SeededRepeatable ==
    (first.kind # "none" /\ result.op = first.op /\ result.args = first.args)
        => result = first

\* a remembered payload of draws has been returned again after a different
\* call had moved the generator
C1_Witness ==
    /\ first.kind = "ok"
    /\ first.op = "get_family_progress"
    /\ first.args = <<family_12>>
    /\ disturbed
    /\ result = first

--------------------------------------------------------------------------
(* Claims about concurrent generator calls, checked under SpecConcurrent *)

\* C2: two generator calls for different identifiers whose steps interleave
\* each return exactly the payload the call returns when it runs alone
C2_ConcurrentIsolated ==
    \A t \in Threads :
        (pc[t] = "done" /\ call[1].args[1] # call[2].args[1])
            => out[t] = Alone(0, call[t]).res

--------------------------------------------------------------------------
(* Claims about the narrative history, checked under SpecHistory *)

\* C3: a generate_narrative call changes no shared state: every
\* get_narrative_history(user_id, limit) query answers after the call as it
\* answered before it, and the history held by the provider is unchanged
C3_GenerateSideEffectFree ==
    [][result'.op = "generate_narrative" =>
          /\ narrative_history' = narrative_history
          /\ \A user_id \in Users, limit \in Limits :
                narrative_history_of(narrative_history'[registry["narratives"]], user_id, limit)
                    = narrative_history_of(narrative_history[registry["narratives"]], user_id, limit)]_vars

--------------------------------------------------------------------------
(* Claims about encounter generation, checked under SpecEncounters *)

\* the bank a mode selects, and the positions of the bank an encounter e
\* could have been built from
C11_Bank(narrative_mode) ==
    IF narrative_mode = "history" THEN historical_encounters ELSE fantasy_encounters
C11_Archetypes(bank, e) ==
    {j \in 1..Len(bank) : /\ bank[j].title = e.title
                          /\ bank[j].type = e.type
                          /\ bank[j].ar_model = e.ar_model
                          /\ bank[j].interaction_type = e.interaction_type}

\* C11: for every route id, mode, age and count >= 0, generate_ar_encounters
\* raises nothing and returns exactly min(count, 8) encounters, each built
\* from an archetype of the bank the mode selects, no archetype used twice
C11_SamplingBound ==
    (result.op = "generate_ar_encounters" /\ result.args[4] >= 0) =>
        /\ result.kind = "ok"
        /\ Len(result.payload) = Min(result.args[4], 8)
        /\ \A i \in 1..Len(result.payload) :
              C11_Archetypes(C11_Bank(result.args[2]), result.payload[i]) # {}
        /\ \A i, j \in 1..Len(result.payload) :
              i # j => C11_Archetypes(C11_Bank(result.args[2]), result.payload[i])
                         \cap C11_Archetypes(C11_Bank(result.args[2]), result.payload[j]) = {}

\* a request for more encounters than the bank holds returned the whole bank
C11_Witness ==
    /\ result.op = "generate_ar_encounters"
    /\ result.args[4] = MaxRequest
    /\ MaxRequest > 8
    /\ result.kind = "ok"
    /\ Len(result.payload) = 8

\* the difficulties an age band allows
C12_Ceiling(child_age) ==
    IF child_age < 8 THEN {"easy"}
    ELSE IF child_age < 12 THEN {"easy", "medium"}
    ELSE {"easy", "medium", "hard"}

\* C12: every encounter generate_ar_encounters returns has a difficulty the
\* band of the requester's age allows: "easy" below 8, "easy" or "medium"
\* from 8 to 11, any of the three from 12 on
C12_DifficultyWithinBand ==
    (result.op = "generate_ar_encounters" /\ result.kind = "ok") =>
        \A i \in 1..Len(result.payload) :
            result.payload[i].difficulty \in C12_Ceiling(result.args[3])

\* a whole bank was returned to a seven-year-old, and a middle-band request
\* got a "medium" encounter
C12_Witness ==
    /\ result.op = "generate_ar_encounters"
    /\ result.kind = "ok"
    /\ \/ result.args[3] = 7 /\ Len(result.payload) = 8
       \/ /\ result.args[3] = 11
          /\ \E i \in 1..Len(result.payload) : result.payload[i].difficulty = "medium"

--------------------------------------------------------------------------
(* Claims about family progress, checked under SpecProgress *)

\* sum(route["distance"] for route in completed_routes[:n]), in tenths
RECURSIVE C13_DistanceSum(_, _)
C13_DistanceSum(completed_routes, n) ==
    IF n = 0 THEN 0
    ELSE C13_DistanceSum(completed_routes, n - 1) + completed_routes[n].distance

\* C13: a payload get_family_progress returns lists as many completed
\* routes as its total_routes says, between 3 and 10, and its
\* total_distance is the sum of the distances of those routes
C13_ProgressConsistent ==
    (result.op = "get_family_progress" /\ result.kind = "ok") =>
        /\ Len(result.payload.completed_routes) = result.payload.total_routes
        /\ result.payload.total_routes \in 3..10
        /\ result.payload.total_distance
              = C13_DistanceSum(result.payload.completed_routes,
                                Len(result.payload.completed_routes))

\* a payload of more than three routes whose distances are not all equal
C13_Witness ==
    /\ result.op = "get_family_progress"
    /\ result.kind = "ok"
    /\ result.payload.total_routes > 3
    /\ \E i, j \in 1..Len(result.payload.completed_routes) :
          result.payload.completed_routes[i].distance
              # result.payload.completed_routes[j].distance

--------------------------------------------------------------------------
(* Claims about the routes provider and the request handlers, checked      *)
(* under SpecRequests                                                      *)

\* C14: generate_route on the registered routes provider, for a positive
\* distance and a difficulty of easy, moderate or hard, returns a route with
\* exactly 10 waypoints, the first at the start coordinate, and with
\* suitable_for.children true whenever with_children is true
C14_RouteReturned ==
    result.op = "generate_route"
        => /\ result.kind = "ok"
           /\ Len(result.payload.points) = 10
           /\ result.payload.points[1].lat = result.args[1]
           /\ result.payload.points[1].lng = result.args[2]
           /\ result.args[5] => result.payload.suitable_for.children

\* the handlers that take a child age, and the age a handler was given
C16_AgeHandlers == {"narratives.generate_narrative", "ar_encounters.generate_ar_encounters",
                    "safety.check_content_appropriateness"}
C16_Age == IF result.op = "safety.check_content_appropriateness"
           THEN result.args[2] ELSE result.args[3]

\* C16: narrative generation, encounter generation and the content check
\* each answer a child age below 1 or above 18 with a validation error
C16_InvalidAgeRejected ==
    (result.op \in C16_AgeHandlers /\ (C16_Age <= 0 \/ C16_Age > 18))
        => (result.kind = "raise" /\ result.exc = "ValidationError")

\* C17: a generate_route request whose difficulty is not easy, moderate or
\* hard ends in a validation error and yields no route
C17_UnknownDifficultyRejected ==
    (result.op = "routes.generate_route" /\ result.args[4] \notin {"easy", "moderate", "hard"})
        => (result.kind = "raise" /\ result.exc = "ValidationError")

\* a request with a positive distance and an unknown difficulty was rejected
C17_Witness ==
    /\ result.op = "routes.generate_route"
    /\ result.args[3] > 0
    /\ result.args[4] = "extreme"
    /\ result.exc = "ValidationError"

--------------------------------------------------------------------------
(* Claims about errors and seeds of the generators, checked under          *)
(* SpecGenerators and SpecConcurrent                                       *)

\* C15: an exception raised inside a generator operation reaches the caller
\* as a ProviderError and as no other kind of exception
C15_OnlyProviderErrorEscapes ==
    result.kind = "raise" => result.exc = "ProviderError"

\* C18: complete_route called twice in a row with the same family, route and
\* activity returns the same payload both times
C18_CompleteRouteRepeatable ==
    [][(/\ result.op = "complete_route"
        /\ result'.op = "complete_route"
        /\ result'.args = result.args)
            => result'.payload = result.payload]_vars

\* C19: two encounter generations for one route id and the two modes seed the
\* generator with different seeds
C19_SeedDependsOnMode ==
    \A t, u \in Threads :
        (/\ pc[t] = "draw"
         /\ call[t].op = "generate_ar_encounters"
         /\ call[u].op = "generate_ar_encounters"
         /\ call[t].args[1] = call[u].args[1]
         /\ call[t].args[2] # call[u].args[2])
            => SeedOf(call[t]).seed # SeedOf(call[u]).seed

\* C20: get_family and get_family_progress derive a seed from every
\* identifier: neither fails with the ValueError of int()
C20_SeedAlwaysDerived ==
    result.op \in {"get_family", "get_family_progress"}
        => ~(result.kind = "raise" /\ result.exc = "ValueError")

\* two strings made of the same characters, each the same number of times
C21_Permutation(a, b) ==
    /\ Len(a) = Len(b)
    /\ \A c \in Range(a) \cup Range(b) : Count(a, c) = Count(b, c)

\* C21: in every seeded generator, two identifiers that are permutations of
\* the same characters derive the same seed
C21_SeedOrderIndependent ==
    \A t, u \in Threads :
        (/\ pc[t] = "draw"
         /\ call[u].op = call[t].op
         /\ C21_Permutation(call[t].args[1], call[u].args[1])
         /\ SeedOf(call[u]).ok)
            => SeedOf(call[t]).seed = SeedOf(call[u]).seed

--------------------------------------------------------------------------
(* Claims about generated narratives, checked under SpecNarratives *)

C22_Band(child_age) ==
    CASE child_age <= 7 -> "younger"
      [] child_age >= 8 /\ child_age <= 11 -> "middle"
      [] child_age >= 12 -> "older"
C22_Templates(mode) ==
    IF mode = "history" THEN historical_base_narratives ELSE fantasy_base_narratives

\* C22: generate_narrative returns one segment per story template of the
\* requested mode, in template order at waypoints wp1..wp4, each with the
\* template's title, facts and images and with the story written for the band
\* of the requester's age (below 8, 8 to 11, 12 and above)
C22_SegmentPerTemplate ==
    result.op = "generate_narrative"
        => /\ result.kind = "ok"
           /\ Len(result.payload) = 4
           /\ \A i \in 1..4 :
                 /\ result.payload[i].waypoint_id = <<"wp1", "wp2", "wp3", "wp4">>[i]
                 /\ result.payload[i].title = C22_Templates(result.args[2])[i].title
                 /\ result.payload[i].facts = C22_Templates(result.args[2])[i].facts
                 /\ result.payload[i].images = C22_Templates(result.args[2])[i].images
                 /\ "story" \in DOMAIN result.payload[i]
                 /\ result.payload[i].story
                        = <<result.payload[i].title, C22_Band(result.args[3])>>

\* a narrative generated for age 8, the first age of the middle band
C22_Witness ==
    /\ result.op = "generate_narrative"
    /\ result.args[3] = 8
    /\ result.payload[1].story[2] = "middle"
    /\ result.payload[4].waypoint_id = "wp4"

--------------------------------------------------------------------------
(* Claims about the labels of a clean verdict, checked under SpecSafety *)

\* C24: when no lexicon term matches, the reading-level and age-rating labels
\* depend on the age only through its band (below 8, 8 to 11, 12 and above):
\* every age of the band of the requester's age receives the same labels
C24_LabelsByAgeBand ==
    (Checked /\ HighTermsIn(CheckedText) = {} /\ MildTermsIn(CheckedText) = {})
        => \A child_age \in Ages :
              C22_Band(child_age) = C22_Band(CheckedAge)
                  => /\ check_content_appropriateness(CheckedText, child_age).payload.reading_level
                            = result.payload.reading_level
                     /\ check_content_appropriateness(CheckedText, child_age).payload.age_rating
                            = result.payload.age_rating

--------------------------------------------------------------------------
(* Claims about route payloads, checked under SpecRequests *)

\* minutes per kilometre of a difficulty
C23_Rate(difficulty) ==
    CASE difficulty = "easy" -> 20
      [] difficulty = "moderate" -> 25
      [] difficulty = "hard" -> 35

\* C23: every route payload returned by generate_route or get_route has
\* estimated_time equal to the integer part of distance times the
\* minutes-per-kilometre rate of its difficulty
C23_EstimatedTime ==
    (result.op \in {"generate_route", "get_route"} /\ result.kind = "ok")
        => result.payload.estimated_time
              = (result.payload.distance * C23_Rate(result.payload.difficulty)) \div 10

\* C29: for every route id, get_route and get_route_safety_info classify the
\* route alike: difficulty equals difficulty_rating
C29_SameClassification ==
    (result.op = "get_route" /\ result.kind = "ok")
        => result.payload.difficulty
              = get_route_safety_info(result.args[1]).payload.difficulty_rating

--------------------------------------------------------------------------
(* Claims about requests before registration, checked under SpecStartup *)

\* the domain whose provider a handler fetches
C25_DomainOf(op) ==
    CASE op = "routes.generate_route" -> "routes"
      [] op = "narratives.generate_narrative" -> "narratives"
      [] op = "ar_encounters.generate_ar_encounters" -> "ar_encounters"
      [] op = "safety.check_content_appropriateness" -> "safety"

\* C25: a request handler that runs while its provider is not registered
\* ends in the ConfigurationError itself, not in another kind of error
C25_ConfigurationErrorSurfaces ==
    (/\ result.op \in {"routes.generate_route", "narratives.generate_narrative",
                       "ar_encounters.generate_ar_encounters",
                       "safety.check_content_appropriateness"}
     /\ registry[C25_DomainOf(result.op)] = None)
        => (result.kind = "raise" /\ result.exc = "ConfigurationError")

--------------------------------------------------------------------------
(* Claims about the encounter request handler, checked under SpecRequests *)

\* C26: with the AR encounters provider registered, a generation request
\* returns exactly the list the provider's generate_ar_encounters produces
\* for the same route id, mode, child age and count
C26_HandlerReturnsProviderList ==
    (result.op = "ar_encounters.generate_ar_encounters" /\ registry["ar_encounters"] # None)
        => /\ result.kind = "ok"
           /\ result.payload = generate_ar_encounters(rng, result.args[1], result.args[2],
                                                      result.args[3], result.args[4]).res.payload

--------------------------------------------------------------------------
(* Claims about the history query, checked under SpecNarratives *)

\* the entries the provider holds for the user of the last query
C27_Held == narrative_history[registry["narratives"]][result.args[1]]

\* C27: get_narrative_history(user_id, limit) returns at most limit entries
\* for every limit >= 0, none for limit 0: the most recently appended entries
\* of the user in append order
C27_AtMostLimit ==
    (result.op = "get_narrative_history" /\ result.args[2] >= 0)
        => /\ result.kind = "ok"
           /\ Len(result.payload) = Min(result.args[2], Len(C27_Held))
           /\ \A i \in 1..Len(result.payload) :
                 result.payload[i] = C27_Held[Len(C27_Held) - Len(result.payload) + i]

--------------------------------------------------------------------------
(* Claims about encounter details, checked under SpecDetails *)

\* the type the id's text before the first underscore names
C28_TypeOfPrefix(encounter_id) ==
    LET prefix == split_first(encounter_id)
    IN  IF prefix = w_animal THEN "animal"
        ELSE IF prefix = w_treasure THEN "treasure"
        ELSE IF prefix = w_character THEN "character"
        ELSE IF prefix = w_puzzle THEN "puzzle"
        ELSE "landmark"

\* C28: a detail lookup, by the provider or by the request handler, returns
\* a payload carrying the id it was asked for and the type named by the
\* id's text before the first underscore (landmark when that text is not
\* animal, treasure, character or puzzle)
C28_DetailTypeIsPrefix ==
    (result.op \in {"get_encounter_details", "ar_encounters.get_encounter_details"}) =>
        /\ result.kind = "ok"
        /\ result.payload.id = result.args[1]
        /\ result.payload.type = C28_TypeOfPrefix(result.args[1])

\* the provider's lookup alone is keyed by the prefix
C28_ProviderKeyedByPrefix ==
    (result.op = "get_encounter_details") =>
        /\ result.payload.id = result.args[1]
        /\ result.payload.type = C28_TypeOfPrefix(result.args[1])

--------------------------------------------------------------------------
(* Claims about the narrative history, checked under SpecHistory *)

\* the history of the registered narratives provider, now and after the step
C30_History == narrative_history[registry["narratives"]]
C30_HistoryAfter == narrative_history'[registry["narratives"]]

\* the step is a completed generate_narrative call: every operation leaves
\* its own name in the outcome
C30_Generated == result'.op = "generate_narrative"

\* exactly one entry is appended to the list of exactly one of user_1 ..
\* user_10, every other list and every earlier entry staying as it was
C30_OneAppended ==
    \E u \in 1..10 :
        /\ Len(C30_HistoryAfter[u]) = Len(C30_History[u]) + 1
        /\ SubSeq(C30_HistoryAfter[u], 1, Len(C30_History[u])) = C30_History[u]
        /\ \A v \in Users \ {u} : C30_HistoryAfter[v] = C30_History[v]

\* C30: on one provider instance the history starts empty, holds entries
\* only under user_1 .. user_10, grows by exactly one entry of exactly one
\* user with every completed generate_narrative call (so the total is the
\* number of completed calls), keeps every existing entry in place and
\* unmodified, and is left unchanged by preview_narratives and
\* get_narrative_history
C30_HistoryGrowsByCalls ==
    /\ Entries(C30_History) = 0
    /\ [](\A u \in Users \ (1..10) : C30_History[u] = <<>>)
    /\ [][ IF C30_Generated
           THEN C30_OneAppended /\ Entries(C30_HistoryAfter) = Entries(C30_History) + 1
           ELSE C30_HistoryAfter = C30_History ]_vars

\* two calls have completed for the same user, and the history was read
\* afterwards
C30_Witness ==
    /\ result.op = "get_narrative_history"
    /\ Entries(C30_History) = 2
    /\ \E u \in 1..10 : Len(C30_History[u]) = 2 /\ C30_History[u][1].mode # C30_History[u][2].mode

=============================================================================
